---- MODULE Spec2Model ----
(***************************************************************************)
(* Model of src/files/ald.py: the bulk provisioning script.  main() walks  *)
(* the index range in chunks; every chunk is handed to run_in_threads,     *)
(* which fans the Command Runner out over a ThreadPoolExecutor; the names  *)
(* that come back as failed are re-run once with two workers.              *)
(*                                                                         *)
(* Strings are sequences of one-character strings, so that the formatting  *)
(* of a result (f'failed: {name}') and its parsing (startswith, split,     *)
(* strip) are computed the way the code computes them.                     *)
(*                                                                         *)
(* Also modelled, with variables of its own: get_issue_status of           *)
(* src/support_bot.py, which asks the ticket service for a ticket under    *)
(* four URLs in turn; and the Telegram bot of the same file: the way the   *)
(* Application hands the updates of a user to the handlers of the          *)
(* ticket-creation conversation.                                           *)
(***************************************************************************)
EXTENDS Naturals, Integers, Sequences, FiniteSets, Bags, TLC

VARIABLES
    args,          \* sys.argv[1:]: the argument strings as typed
    env,           \* environment: what an external process may do (error text, output lines, exit status)
    argv,          \* the arguments once parsed: mode, name, start, stop, chunk, threads, extra
    pc,            \* position of the main thread
    start_pos,     \* loop variable of `for start_pos in range(start, stop, chunk)`
    end_pos,       \* end of the current chunk
    namesPos,      \* next index the generator `names` yields
    ipsPos,        \* next index the generator `ips` yields
    rerun,         \* the list behind the generator of rerun_args, and its position
    pool,          \* the ThreadPoolExecutor of the current run_in_threads call
    tasks,         \* the futures: task id -> record
    asc,           \* as_completed: has the iteration begun, and what it still holds
    rfailed,       \* run_in_threads' local list `failed`
    failed_twice,  \* main's list failed_twice
    critical,      \* the final logging.critical: whether it was logged, and the names in it
    broken,        \* environment: names of this chunk whose external operations keep failing
    chunks,        \* history: the (start_pos, end_pos) ranges iterated so far
    cur,           \* history: the finished run_in_threads calls of the current chunk
    started,       \* history: bag of <<name, pass>>, one copy per task given the name
    failedBoth,    \* history: names whose task was classified failed in both passes
    issue_id,      \* get_issue_status: its argument
    site,          \* environment: what the ticket service does with the request for each URL
    requested,     \* history: the URLs requested so far, in order
    returned,      \* get_issue_status: the text it returned
    keyboards,     \* bot: the inline keyboards sent so far; the index is the id of their message
    conversations, \* bot: the ticket ConversationHandler's dict: key -> state
    user_data,     \* bot: context.user_data of the user
    sent,          \* history: the texts the user sent since create_ticket_start ran
    taken,         \* history: the callback that handled the last update, "" when none did
    called,        \* history: user_data at every call of create_ticket
    ticket,        \* create_ticket: its position, what it has requested, sent and returned
    question       \* process_user_question: its position, the question, the sections, the replies

statusvars == <<issue_id, site, requested, returned>>

botvars == <<keyboards, conversations, user_data, sent, taken, called, ticket, question>>

vars == <<botvars, statusvars, args, env, critical, argv, pc, start_pos, end_pos, namesPos, ipsPos, rerun, pool, tasks,
          asc, rfailed, failed_twice, broken, chunks, cur, started, failedBoth>>

hist == <<chunks, cur, started, failedBoth>>

\* ------------------------------------------------------------------ bounds

MaxStart == 1
MaxStop == 3
MaxChunk == 2
MaxThreads == 2
MaxIpIndex == 65536

\* ----------------------------------------------------------------- strings

Digits == <<"0", "1", "2", "3", "4", "5", "6", "7", "8", "9">>

RECURSIVE Str(_)
Str(i) == IF i < 10 THEN <<Digits[i + 1]>> ELSE Str(i \div 10) \o <<Digits[(i % 10) + 1]>>

S_failed == <<"f", "a", "i", "l", "e", "d">>
S_colon_sp == <<":", " ">>
S_dot == <<".">>
S_ten_ten == <<"1", "0", ".", "1", "0", ".">>
S_kinit_ok == <<"k", "i", "n", "i", "t", ":", " ", "s", "u", "c", "c", "e", "s", "s", "f", "u", "l">>

\* text the external tools print: the second output line, and the error text
OutLine == <<"A", "d", "d", "e", "d">>
ErrText == <<"E", "R", "R">>

StartsWith(s, p) == Len(s) >= Len(p) /\ SubSeq(s, 1, Len(p)) = p

RECURSIVE LStrip(_)
LStrip(s) == IF s # <<>> /\ Head(s) = " " THEN LStrip(Tail(s)) ELSE s

RECURSIVE RStrip(_)
RStrip(s) == IF s # <<>> /\ s[Len(s)] = " " THEN RStrip(SubSeq(s, 1, Len(s) - 1)) ELSE s

Strip(s) == RStrip(LStrip(s))

\* position of the first sep in s at or after i, 0 when there is none
RECURSIVE Find(_, _, _)
Find(s, sep, i) ==
    IF i > Len(s) THEN 0 ELSE IF s[i] = sep THEN i ELSE Find(s, sep, i + 1)

\* str.split(sep, maxsplit)
RECURSIVE Split(_, _, _)
Split(s, sep, maxsplit) ==
    LET k == Find(s, sep, 1) IN
    IF maxsplit = 0 \/ k = 0 THEN <<s>>
    ELSE <<SubSeq(s, 1, k - 1)>> \o Split(SubSeq(s, k + 1, Len(s)), sep, maxsplit - 1)

RECURSIVE Count(_, _)
Count(s, x) == IF s = <<>> THEN 0 ELSE (IF Head(s) = x THEN 1 ELSE 0) + Count(Tail(s), x)

Range(s) == {s[i] : i \in 1..Len(s)}

\* int(x) of a string: an optional sign and decimal digits, anything else raises
\* ValueError
IsDigit(c) == \E d \in 1..10 : Digits[d] = c
DigitVal(c) == (CHOOSE d \in 1..10 : Digits[d] = c) - 1

IsInt(s) ==
    LET body == IF s # <<>> /\ Head(s) \in {"-", "+"} THEN Tail(s) ELSE s
    IN body # <<>> /\ \A k \in 1..Len(body) : IsDigit(body[k])

RECURSIVE NatVal(_)
NatVal(s) ==
    IF s = <<>> THEN 0 ELSE 10 * NatVal(SubSeq(s, 1, Len(s) - 1)) + DigitVal(s[Len(s)])

int(s) ==
    CASE Head(s) = "-" -> 0 - NatVal(Tail(s))
      [] Head(s) = "+" -> NatVal(Tail(s))
      [] OTHER -> NatVal(s)

\* ------------------------------------------------------------ the run's inputs

Modes == {"usermk", "groupmk", "hostmk", "useract", "userauth"}
ExtraModes == {"useract", "userauth", "hostmk"}

BaseNames == {<<"u">>, S_failed, <<"a", ":", "b">>}

ExtraArg == <<"x">>

\* argument strings that are no non-negative integer: a negative one, and a word
BadTokens == {<<"-", "1">>, <<"x">>}
NumTokens(lo, hi) == {Str(i) : i \in lo..hi}

\* Argument vectors: seven arguments for the modes that take a seventh, six
\* otherwise (also for the modes that need seven), and the first five alone.
ArgVectors(modes, names, starts, stops, chunksizes, threads) ==
    LET six == {<<m, n, a, b, c, t>> : m \in modes, n \in names, a \in starts,
                                       b \in stops, c \in chunksizes, t \in threads}
    IN six \cup {v \o <<ExtraArg>> : v \in {w \in six : w[1] \in ExtraModes}}
           \cup {SubSeq(v, 1, 5) : v \in six}

\* the if of main that ends in `return help()`; int(x) of a string that is no
\* integer raises ValueError out of it
Validate(a) ==
    IF Len(a) < 6 \/ a[1] \notin Modes \/ (a[1] \in ExtraModes /\ Len(a) < 7)
    THEN "help"
    ELSE IF \E k \in 3..6 : ~IsInt(a[k]) THEN "ValueError"
    ELSE IF ~(\A k \in 3..6 : int(a[k]) >= 0) THEN "help"
    ELSE "ok"

\* action, name = args[:2]; start, stop, chunk, threads = list(map(int, args[2:6]));
\* extra_arg = args[6] for the modes that take it
ParsedArgs(a) ==
    [mode |-> a[1], name |-> a[2], start |-> int(a[3]), stop |-> int(a[4]),
     chunk |-> int(a[5]), threads |-> int(a[6]),
     extra |-> IF a[1] \in ExtraModes THEN a[7] ELSE <<>>]

NoArgv ==
    [mode |-> "", name |-> <<>>, start |-> 0, stop |-> 0, chunk |-> 0, threads |-> 0,
     extra |-> <<>>]

\* ------------------------------------------------------------ program constants

RetryThreads == 2
DefaultThreads == 5
ThreadsLimit == 10

\* ------------------------------------------------------------ Record Generators

\* names = (name+str(i) for i in range(start, stop+1)): the value yielded for index i
NameOf(base, i) == base \o Str(i)

\* mutant of IpOf: the third octet changes every 255 indices
IpOfDiv255(i) == S_ten_ten \o Str(0 + (i \div 255)) \o S_dot \o Str(0 + (i % 256))

\* ips = ('10.10.' + str(0 + i // 256) + '.' + str(0 + i % 256) ...)
IpOf(i) == S_ten_ten \o Str(0 + (i \div 256)) \o S_dot \o Str(0 + (i % 256))

\* ------------------------------------------------------------ Command Runner

\* What one external process did: text on its error stream, or else the number of
\* lines on its output stream (two stands for two or more).
Outcomes == {"err", "out0", "out1", "out2"}

\* What one external process does: the text on its error stream, the number of
\* lines on its output stream (two stands for two or more), its exit status.
ErrTexts == {<<>>, <<" ">>, ErrText}
ProcResults == [err : ErrTexts, out : 0..2, rc : {0, 1}]

\* one process result for each way the program can tell them apart
ProcTypical ==
    {[err |-> ErrText, out |-> 0, rc |-> 1], [err |-> <<>>, out |-> 0, rc |-> 0],
     [err |-> <<>>, out |-> 1, rc |-> 0], [err |-> <<>>, out |-> 2, rc |-> 0]}

NoProc == [cmd |-> "", err |-> <<>>, out |-> 0, rc |-> 0]

\* mutant of Outcome: the exit status decides on failure
OutcomeByExit(p) ==
    CASE p.rc # 0 -> "err"
      [] p.out = 0 -> "out0"
      [] p.out = 1 -> "out1"
      [] OTHER -> "out2"

\* run_cmd reads the error stream (err = ...read().decode().strip(); if err:) and
\* then the lines of the output stream; it never reads the exit status
Outcome(p) ==
    CASE Strip(p.err) # <<>> -> "err"
      [] p.out = 0 -> "out0"
      [] p.out = 1 -> "out1"
      [] OTHER -> "out2"

\* the kinit steps read the error stream only
ErrOutcome(p) == IF Strip(p.err) # <<>> THEN "err" ELSE "out0"

\* the ipa subcommand a run_cmd task runs: make_hosts runs host-add first
CmdOf(mode, st) ==
    CASE mode = "usermk" -> "user-add"
      [] mode = "groupmk" -> "group-add"
      [] st = "cmd1" -> "host-add"
      [] OTHER -> "dnsrecord-add"

NoResult == [kind |-> "none", val |-> <<>>]
Raised == [kind |-> "raise", val |-> <<>>]

\* run_cmd: a non-empty error stream gives f'failed: {name}'; no output line gives
\* None; out[1] of a single line raises IndexError; else f'{name}: {out[1]}'.
run_cmd(name, o) ==
    CASE o = "err" -> [kind |-> "fail", val |-> S_failed \o S_colon_sp \o name]
      [] o = "out0" -> NoResult
      [] o = "out1" -> Raised
      [] OTHER -> [kind |-> "ok", val |-> name \o S_colon_sp \o Strip(OutLine)]

\* the kinit step of activate_users and auth_users
kinit(name, o) ==
    IF o = "err"
    THEN [kind |-> "fail", val |-> S_failed \o S_colon_sp \o name \o S_colon_sp \o Strip(ErrText)]
    ELSE [kind |-> "ok", val |-> name \o S_colon_sp \o S_kinit_ok]

\* the stage a task enters once it holds its name
AfterName(mode) ==
    CASE mode \in {"usermk", "groupmk"} -> "cmd"
      [] mode = "hostmk" -> "next_ip"
      [] mode = "useract" -> "passwd"
      [] OTHER -> "kinit"

\* ------------------------------------------------------------ the state

Mode == argv.mode
Running == {"in_name", "next_ip", "in_ip", "cmd1", "cmd", "passwd", "kinit"}

TaskIds == DOMAIN tasks
PoolTasks == {id \in TaskIds : id[1] = pool.id}
Busy(call) == {id \in TaskIds : id[1] = call /\ tasks[id].st \in Running}

NewTask(pass, fn, a) ==
    [st |-> "pending", pass |-> pass, fn |-> fn, args |-> a, ops |-> 0, name |-> <<>>, ip |-> <<>>, res |-> NoResult,
     proc |-> NoProc, dropfail |-> FALSE, rank |-> 0, seen |-> "no", app |-> FALSE, entry |-> <<>>]

\* mutant of Threads: the upper limit itself is accepted
ThreadsUpToLimit(t) == IF ~(0 < t /\ t <= ThreadsLimit) THEN DefaultThreads ELSE t

\* the clamp of main: if not 0 < threads < 10: threads = 5
Threads(t) == IF ~(0 < t /\ t < ThreadsLimit) THEN DefaultThreads ELSE t
\* History of the order of the appends of a call: the highest completion rank
\* among the tasks whose entry has been appended (maxapp), and among those of them
\* that completed after the iteration had begun (maxlate); whether an entry was
\* appended after the entry of a task that completed later (ooo), and after the
\* entry of such a task that completed after the iteration had begun (ooolate).
NoOrder == [maxapp |-> 0, maxlate |-> 0, ooo |-> FALSE, ooolate |-> FALSE]

Appended(order, rank, late) ==
    [maxapp |-> IF rank > order.maxapp THEN rank ELSE order.maxapp,
     maxlate |-> IF late /\ rank > order.maxlate THEN rank ELSE order.maxlate,
     ooo |-> order.ooo \/ rank < order.maxapp,
     ooolate |-> order.ooolate \/ rank < order.maxlate]

\* get_issue_status has not returned / is not called at all
NoReturn == <<"-">>

NoStatusCall ==
    /\ issue_id = <<>>
    /\ site = <<>>
    /\ requested = <<>>
    /\ returned = NoReturn

\* dict.get(k, default), d[k] = v and d.pop(k) of a dict
EmptyDict == [k \in {} |-> k]
Get(d, k, default) == IF k \in DOMAIN d THEN d[k] ELSE default
Put(d, k, v) == [x \in DOMAIN d \cup {k} |-> IF x = k THEN v ELSE d[x]]
Pop(d, k) == [x \in DOMAIN d \ {k} |-> d[x]]

\* create_ticket is not running
NoTicket == [pc |-> "idle"]

\* process_user_question is not running
NoQuestion == [pc |-> "idle"]

\* the bot has received no update
NoBot ==
    /\ keyboards = <<>>
    /\ conversations = EmptyDict
    /\ user_data = EmptyDict
    /\ sent = <<>>
    /\ taken = ""
    /\ called = <<>>
    /\ ticket = NoTicket
    /\ question = NoQuestion

\* the state in which main is entered
Start(vectors, procs) ==
    /\ args \in vectors
    /\ env = procs
    /\ argv = NoArgv
    /\ pc = "start"
    /\ start_pos = 0
    /\ end_pos = 0
    /\ namesPos = 0
    /\ ipsPos = 0
    /\ rerun = [items |-> <<>>, pos |-> 1]
    /\ pool = [id |-> 0, pass |-> 0, workers |-> 0, n |-> 0, handed |-> <<>>, active |-> FALSE,
               order |-> NoOrder]
    /\ tasks = <<>>
    /\ asc = [begun |-> FALSE, finished |-> {}, queue |-> <<>>]
    /\ rfailed = <<>>
    /\ failed_twice = <<>>
    /\ critical = [logged |-> FALSE, names |-> <<>>]
    /\ broken = {}
    /\ chunks = <<>>
    /\ cur = <<>>
    /\ started = EmptyBag
    /\ failedBoth = {}

Args ==
    ArgVectors(Modes \cup {"x"}, BaseNames,
               NumTokens(0, MaxStart) \cup BadTokens, NumTokens(0, MaxStop) \cup BadTokens,
               NumTokens(0, MaxChunk) \cup BadTokens, NumTokens(0, MaxThreads) \cup BadTokens)

Init == Start(Args, ProcTypical) /\ NoStatusCall /\ NoBot

\* ------------------------------------------------------------ main: the arguments

\* return help(): the usage text is printed and quit() ends the program
Help ==
    /\ pc = "start"
    /\ Validate(args) = "help"
    /\ pc' = "usage"
    /\ UNCHANGED <<botvars, statusvars, args, env, critical, argv, start_pos, end_pos, namesPos, ipsPos, rerun, pool, tasks,
                   asc, rfailed, failed_twice, broken, hist>>

\* int(x) raises ValueError inside the validation: main ends with a traceback
ArgError ==
    /\ pc = "start"
    /\ Validate(args) = "ValueError"
    /\ pc' = "argerror"
    /\ UNCHANGED <<botvars, statusvars, args, env, critical, argv, start_pos, end_pos, namesPos, ipsPos, rerun, pool, tasks,
                   asc, rfailed, failed_twice, broken, hist>>

\* the arguments are accepted: they are parsed, and the generators names and ips
\* are created at index start
MainSetup ==
    /\ pc = "start"
    /\ Validate(args) = "ok"
    /\ argv' = ParsedArgs(args)
    /\ start_pos' = argv'.start
    /\ end_pos' = argv'.start
    /\ namesPos' = argv'.start
    /\ ipsPos' = argv'.start
    /\ pc' = "loop"
    /\ UNCHANGED <<botvars, statusvars, args, env, critical, rerun, pool, tasks, asc, rfailed, failed_twice, broken, hist>>

\* ------------------------------------------------------------ Chunked Retry Driver

\* mutant of EndPos: the clamp to stop is left out
EndPosNoClamp(sp, chunk, stop) == sp + chunk

\* end_pos = start_pos+chunk; if end_pos > stop: end_pos = stop
EndPos(sp, chunk, stop) == IF sp + chunk > stop THEN stop ELSE sp + chunk

\* mutant of RerunItems: the retry pass re-runs every name of the chunk
RerunItemsAll(failedList, handed) == handed

\* rerun_args = [(n for n in failed)]: the names the retry pass draws from
RerunItems(failedList, handed) == failedList

\* cmd_args = [names], then extra_arg for the modes that take one, then ips for
\* hostmk: the one list every task of a first pass is called with (None is <<>>)
CmdArgs == [gen |-> "names", extra |-> argv.extra, ips |-> (Mode = "hostmk")]

\* mutant of RerunArgs: the retry pass is called without the extra argument
RerunArgsNoExtra == [gen |-> "rerun", extra |-> <<>>, ips |-> FALSE]

\* rerun_args = [(n for n in failed)], then extra_arg if it is not None; no ips
RerunArgs == [gen |-> "rerun", extra |-> argv.extra, ips |-> FALSE]

\* the generator objects a task can reach through the list it is called with:
\* args[0], and args[2] where there is one
Generators(t) == {t.args.gen} \cup (IF t.args.ips THEN {"ips"} ELSE {})

\* executor.submit(cmd, args) for _ in range(start, stop): n futures, and a fresh
\* local list `failed`
Submit(pass, workers, fn, a, n) ==
    /\ pool' = [id |-> pool.id + 1, pass |-> pass, workers |-> workers, n |-> n,
                handed |-> <<>>, active |-> TRUE, order |-> NoOrder]
    /\ tasks' = [id \in TaskIds \cup {<<pool.id + 1, k>> : k \in 1..n} |->
                    IF id \in TaskIds THEN tasks[id] ELSE NewTask(pass, fn, a)]
    /\ asc' = [begun |-> FALSE, finished |-> {}, queue |-> <<>>]
    /\ rfailed' = <<>>

\* range(start, stop, 0) raises ValueError before the first iteration
RangeError ==
    /\ pc = "loop"
    /\ argv.chunk = 0
    /\ pc' = "crashed"
    /\ UNCHANGED <<botvars, statusvars, args, env, critical, argv, start_pos, end_pos, namesPos, ipsPos, rerun, pool, tasks,
                   asc, rfailed, failed_twice, broken, hist>>

\* one iteration of the for loop, up to the first call of run_in_threads
ChunkBegin ==
    /\ pc = "loop"
    /\ argv.chunk > 0
    /\ start_pos < argv.stop
    /\ end_pos' = EndPos(start_pos, argv.chunk, argv.stop)
    /\ Submit(1, Threads(argv.threads), Mode, CmdArgs, end_pos' - start_pos)
    /\ pc' = "pool"
    /\ broken' = {}
    /\ chunks' = Append(chunks, <<start_pos, end_pos'>>)
    /\ cur' = <<>>
    /\ UNCHANGED <<botvars, statusvars, args, env, critical, argv, start_pos, namesPos, ipsPos, rerun, failed_twice, started, failedBoth>>

\* ', '.join(list)
RECURSIVE Join(_)
Join(list) ==
    IF list = <<>> THEN <<>>
    ELSE IF Len(list) = 1 THEN list[1]
    ELSE list[1] \o <<",", " ">> \o Join(Tail(list))

\* failed_twice = ', '.join(failed_twice); if failed_twice: logging.critical(...)
Summary(ft) == [logged |-> Join(ft) # <<>>, names |-> Join(ft)]

\* the loop is exhausted: the summary is logged and main returns
AfterLoop ==
    /\ pc = "loop"
    /\ argv.chunk > 0
    /\ start_pos >= argv.stop
    /\ pc' = "done"
    /\ critical' = Summary(failed_twice)
    /\ UNCHANGED <<botvars, statusvars, args, env, argv, start_pos, end_pos, namesPos, ipsPos, rerun, pool, tasks,
                   asc, rfailed, failed_twice, broken, hist>>

\* ------------------------------------------------------------ Batch Executor

\* mutant of WorkerFree: the pool starts a thread per future
WorkerFreeAlways(call) == TRUE

\* ThreadPoolExecutor(max_workers=threads): a queued future starts when fewer than
\* max_workers of the pool's futures are running
WorkerFree(call) == Cardinality(Busy(call)) < pool.workers

\* a future completes: as_completed, once begun, sees it in completion order
\* (rank records the order of completion within the call until the future has
\* been yielded)
Finish(id, t) ==
    /\ tasks' = [tasks EXCEPT ![id] =
                    [t EXCEPT !.rank = 1 + Cardinality({o \in TaskIds :
                                                          o[1] = id[1] /\ tasks[o].st = "done"})]]
    /\ asc' = IF asc.begun /\ pool.active /\ id[1] = pool.id
              THEN [asc EXCEPT !.queue = Append(@, id)] ELSE asc

Complete(id, res) == Finish(id, [tasks[id] EXCEPT !.st = "done", !.res = res])

\* Calling next(...) on a generator that another thread is executing raises
\* ValueError ('generator already executing'); otherwise the caller is inside the
\* generator until it yields.
Enter(id, inside) ==
    IF \E o \in TaskIds : o # id /\ tasks[o].st = inside /\ tasks[o].pass = tasks[id].pass
    THEN Complete(id, Raised)
    ELSE tasks' = [tasks EXCEPT ![id].st = inside] /\ asc' = asc

\* A worker takes the next queued future and runs cmd(args), whose first statement
\* is next(args[0]).  The queue is served in submission order.
TaskStart(id) ==
    /\ pool.active
    /\ id \in PoolTasks
    /\ tasks[id].st = "pending"
    /\ \A o \in PoolTasks : o[2] < id[2] => tasks[o].st # "pending"
    /\ WorkerFree(pool.id)
    /\ Enter(id, "in_name")
    /\ UNCHANGED <<botvars, statusvars, args, env, critical, argv, pc, start_pos, end_pos, namesPos, ipsPos, rerun, pool,
                   rfailed, failed_twice, broken, hist>>

\* make_hosts: ip = next(args[2]).  rerun_args holds no third element, so args[2]
\* raises IndexError in a retry pass.
NextIp(id) ==
    /\ tasks[id].st = "next_ip"
    /\ IF ~tasks[id].args.ips THEN Complete(id, Raised) ELSE Enter(id, "in_ip")
    /\ UNCHANGED <<botvars, statusvars, args, env, critical, argv, pc, start_pos, end_pos, namesPos, ipsPos, rerun, pool,
                   rfailed, failed_twice, broken, hist>>

\* the generator yields: names and ips run over range(start, stop+1), the rerun
\* generator over the failed list; an exhausted generator raises StopIteration
NextEnd(id) ==
    /\ tasks[id].st \in {"in_name", "in_ip"}
    /\ LET t == tasks[id]
           mine == pool.active /\ id[1] = pool.id
       IN CASE t.st = "in_ip" ->
                 /\ IF ipsPos <= argv.stop
                    THEN /\ tasks' = [tasks EXCEPT ![id].st = "cmd1", ![id].ip = IpOf(ipsPos)]
                         /\ ipsPos' = ipsPos + 1
                         /\ asc' = asc
                    ELSE Complete(id, Raised) /\ ipsPos' = ipsPos
                 /\ UNCHANGED <<namesPos, rerun, pool>>
            [] t.st = "in_name" /\ t.args.gen = "names" ->
                 /\ IF namesPos <= argv.stop
                    THEN /\ tasks' = [tasks EXCEPT ![id].st = AfterName(t.fn),
                                                   ![id].name = NameOf(argv.name, namesPos)]
                         /\ namesPos' = namesPos + 1
                         /\ pool' = IF mine
                                    THEN [pool EXCEPT !.handed = Append(@, NameOf(argv.name, namesPos))]
                                    ELSE pool
                         /\ asc' = asc
                    ELSE Complete(id, Raised) /\ UNCHANGED <<namesPos, pool>>
                 /\ UNCHANGED <<ipsPos, rerun>>
            [] OTHER ->
                 /\ IF rerun.pos <= Len(rerun.items)
                    THEN /\ tasks' = [tasks EXCEPT ![id].st = AfterName(t.fn),
                                                   ![id].name = rerun.items[rerun.pos]]
                         /\ rerun' = [rerun EXCEPT !.pos = @ + 1]
                         /\ pool' = IF mine
                                    THEN [pool EXCEPT !.handed = Append(@, rerun.items[rerun.pos])]
                                    ELSE pool
                         /\ asc' = asc
                    ELSE Complete(id, Raised) /\ UNCHANGED <<rerun, pool>>
                 /\ UNCHANGED <<namesPos, ipsPos>>
    /\ started' = IF tasks'[id].name # tasks[id].name
                  THEN started (+) SetToBag({<<tasks'[id].name, tasks[id].pass>>})
                  ELSE started
    /\ UNCHANGED <<botvars, statusvars, args, env, critical, argv, pc, start_pos, end_pos, rfailed, failed_twice, broken, chunks,
                   cur, failedBoth>>

\* The environment: what the external command does for this name.  A name in
\* `broken` fails every time; a first-pass failure may turn out to be persistent.
EnvResults(name) == IF name \in broken THEN {p \in env : Outcome(p) = "err"} ELSE env
EnvNext(name, pass, o) ==
    IF o = "err" /\ pass = 1 THEN {broken, broken \cup {name}} ELSE {broken}

\* mutant of Dropped: a failure of host-add is returned as the task's result
DroppedUnlessFailed(st, r) == st = "cmd1" /\ r.kind \notin {"raise", "fail"}

\* make_hosts calls run_cmd for host-add as a statement: whatever it returns is
\* dropped and dnsrecord-add is run next; only an exception ends the task there
Dropped(st, r) == st = "cmd1" /\ r.kind # "raise"

\* run_cmd(cmd, name): in make_hosts the first call's result is dropped (but it may
\* raise); the last call's result is the task's result
RunCmd(id) ==
    /\ tasks[id].st \in {"cmd1", "cmd"}
    /\ LET t == tasks[id] IN
       \E p \in EnvResults(t.name) :
          LET o == Outcome(p)
              r == run_cmd(t.name, o)
              ran == [cmd |-> CmdOf(t.fn, t.st), err |-> p.err, out |-> p.out, rc |-> p.rc]
          IN /\ broken' \in EnvNext(t.name, t.pass, o)
             /\ IF Dropped(t.st, r)
                THEN /\ tasks' = [tasks EXCEPT ![id].st = "cmd", ![id].proc = ran,
                                               ![id].ops = @ + 1,
                                               ![id].dropfail = (r.kind = "fail")]
                     /\ asc' = asc
                ELSE Finish(id, [t EXCEPT !.st = "done", !.res = r, !.proc = ran,
                                          !.ops = @ + 1])
    /\ UNCHANGED <<botvars, statusvars, args, env, critical, argv, pc, start_pos, end_pos, namesPos, ipsPos, rerun, pool,
                   rfailed, failed_twice, hist>>

\* activate_users, 'ipa passwd': only the output stream is read, and response[1] of
\* a single line raises IndexError; what the process wrote to its error stream is
\* never read, and the task goes on to kinit (dropfail records it for the tasks of
\* a first pass)
Passwd(id) ==
    /\ tasks[id].st = "passwd"
    /\ \E p \in EnvResults(tasks[id].name) :
          IF p.out = 1
          THEN Finish(id, [tasks[id] EXCEPT !.st = "done", !.res = Raised, !.ops = @ + 1])
          ELSE /\ tasks' = [tasks EXCEPT ![id].st = "kinit", ![id].ops = @ + 1,
                                         ![id].dropfail =
                                             (tasks[id].pass = 1 /\ Strip(p.err) # <<>>)]
               /\ asc' = asc
    /\ UNCHANGED <<botvars, statusvars, args, env, critical, argv, pc, start_pos, end_pos, namesPos, ipsPos, rerun, pool,
                   rfailed, failed_twice, broken, hist>>

\* activate_users and auth_users, 'kinit': the error stream decides
Kinit(id) ==
    /\ tasks[id].st = "kinit"
    /\ LET t == tasks[id] IN
       \E p \in EnvResults(t.name) :
          /\ broken' \in EnvNext(t.name, t.pass, ErrOutcome(p))
          /\ Finish(id, [t EXCEPT !.st = "done", !.res = kinit(t.name, ErrOutcome(p)),
                                  !.ops = @ + 1])
    /\ UNCHANGED <<botvars, statusvars, args, env, critical, argv, pc, start_pos, end_pos, namesPos, ipsPos, rerun, pool,
                   rfailed, failed_twice, hist>>

\* for future in concurrent.futures.as_completed(commands): the iteration begins;
\* the futures already finished are yielded first, in the order of a set
AsCompleted ==
    /\ pc = "pool"
    /\ ~asc.begun
    /\ asc' = [begun |-> TRUE,
               finished |-> {id \in PoolTasks : tasks[id].st = "done"},
               queue |-> <<>>]
    /\ UNCHANGED <<botvars, statusvars, args, env, critical, argv, pc, start_pos, end_pos, namesPos, ipsPos, rerun, pool, tasks,
                   rfailed, failed_twice, broken, hist>>

\* the try body for a result that is not None: logging.info, and a result that
\* starts with 'failed' has the text between its first two colons appended to
\* `failed` (split(':', maxsplit=2)[1].strip()); [1] of a one-element split raises
\* IndexError inside the same try
OnResult(t) ==
    IF StartsWith(t.res.val, S_failed)
    THEN LET parts == Split(t.res.val, ":", 2) IN
         IF Len(parts) < 2
         THEN [seen |-> "exc", append |-> FALSE, entry |-> <<>>]
         ELSE [seen |-> "info", append |-> TRUE, entry |-> Strip(parts[2])]
    ELSE [seen |-> "info", append |-> FALSE, entry |-> <<>>]

\* mutant of Collected: the except branch also appends the task's name
CollectedAppendRaised(t) ==
    CASE t.res.kind = "raise" -> [seen |-> "exc", append |-> TRUE, entry |-> t.name]
      [] t.res.kind = "none" -> [seen |-> "none", append |-> FALSE, entry |-> <<>>]
      [] OTHER -> OnResult(t)

\* mutant of Collected: a None result is taken for a failure of the task's name
CollectedNoneFailed(t) ==
    CASE t.res.kind = "raise" -> [seen |-> "exc", append |-> FALSE, entry |-> <<>>]
      [] t.res.kind = "none" -> [seen |-> "info", append |-> TRUE, entry |-> t.name]
      [] OTHER -> OnResult(t)

\* the body of the as_completed loop for one future: future.result() re-raises the
\* task's exception, which the except branch logs; a None result is skipped
Collected(t) ==
    CASE t.res.kind = "raise" -> [seen |-> "exc", append |-> FALSE, entry |-> <<>>]
      [] t.res.kind = "none" -> [seen |-> "none", append |-> FALSE, entry |-> <<>>]
      [] OTHER -> OnResult(t)

\* mutant of Yielded: as_completed yields the finished futures in any order
YieldedAnyDone(id) == tasks[id].st = "done"

\* the future as_completed yields next: one of those that were finished when the
\* iteration began (a set), and after them the others as they complete
Yielded(id) ==
    \/ id \in asc.finished
    \/ asc.finished = {} /\ asc.queue # <<>> /\ id = Head(asc.queue)

Collect(id) ==
    /\ pc = "pool"
    /\ asc.begun
    /\ id \in PoolTasks
    /\ tasks[id].seen = "no"
    /\ Yielded(id)
    /\ LET c == Collected(tasks[id]) IN
       /\ tasks' = [tasks EXCEPT ![id].seen = c.seen, ![id].entry = c.entry,
                                 ![id].app = c.append, ![id].rank = 0]
       /\ rfailed' = IF c.append THEN Append(rfailed, c.entry) ELSE rfailed
       /\ pool' = IF c.append
                  THEN [pool EXCEPT !.order = Appended(@, tasks[id].rank, id \notin asc.finished)]
                  ELSE pool
    /\ asc' = IF id \in asc.finished
              THEN [asc EXCEPT !.finished = @ \ {id}]
              ELSE [asc EXCEPT !.queue = Tail(@)]
    /\ UNCHANGED <<botvars, statusvars, args, env, critical, argv, pc, start_pos, end_pos, namesPos, ipsPos, rerun,
                   failed_twice, broken, hist>>

\* mutant of CanReturn: shutdown(wait=False) and no as_completed loop
CanReturnNoWait == \A id \in PoolTasks : tasks[id].st # "pending"

\* mutant of CanReturn: the loop is left after the first future it yields
CanReturnFirst == \E id \in PoolTasks : tasks[id].seen # "no"

\* the as_completed loop has yielded every future, and leaving the `with` block
\* (shutdown(wait=True)) has joined the workers
CanReturn == \A id \in PoolTasks : tasks[id].st = "done" /\ tasks[id].seen # "no"

CallRecord ==
    [id |-> pool.id, a |-> start_pos, b |-> end_pos, pass |-> pool.pass,
     workers |-> pool.workers, n |-> pool.n, handed |-> pool.handed, ret |-> rfailed,
     ts |-> [k \in 1..pool.n |-> tasks[<<pool.id, k>>]]]

\* the names of the call's tasks that the Command Runner classified as failed
FailedNames(c) == {c.ts[k].name : k \in {j \in 1..c.n : c.ts[j].res.kind = "fail"}}

Return ==
    /\ cur' = Append(cur, CallRecord)
    /\ pool' = [pool EXCEPT !.active = FALSE]
    /\ tasks' = [id \in {i \in TaskIds : ~(tasks[i].st = "done" /\ tasks[i].seen # "no")} |->
                    tasks[id]]

\* failed = run_in_threads(threads, ...) returns; `if failed:` decides on the retry
FirstReturn ==
    /\ pc = "pool"
    /\ pool.pass = 1
    /\ CanReturn
    /\ Return
    /\ rerun' = [items |-> RerunItems(rfailed, pool.handed), pos |-> 1]
    /\ IF rerun'.items # <<>>
       THEN pc' = "retry" /\ start_pos' = start_pos
       ELSE pc' = "loop" /\ start_pos' = start_pos + argv.chunk
    /\ UNCHANGED <<botvars, statusvars, args, env, critical, argv, end_pos, namesPos, ipsPos, asc, rfailed, failed_twice, broken,
                   chunks, started, failedBoth>>

\* failed_again = run_in_threads(2, cmds[action], rerun_args, 0, len(failed))
RetryBegin ==
    /\ pc = "retry"
    /\ Submit(2, RetryThreads, Mode, RerunArgs, Len(rerun.items))
    /\ pc' = "pool"
    /\ UNCHANGED <<botvars, statusvars, args, env, critical, argv, start_pos, end_pos, namesPos, ipsPos, rerun, failed_twice,
                   broken, hist>>

\* the retry pass returns: failed_twice += failed_again, and the chunk ends
RetryReturn ==
    /\ pc = "pool"
    /\ pool.pass = 2
    /\ CanReturn
    /\ Return
    /\ failed_twice' = failed_twice \o rfailed
    /\ pc' = "loop"
    /\ start_pos' = start_pos + argv.chunk
    /\ failedBoth' = failedBoth \cup
          (IF cur = <<>> THEN {} ELSE FailedNames(cur[1]) \cap FailedNames(CallRecord))
    /\ UNCHANGED <<botvars, statusvars, args, env, critical, argv, end_pos, namesPos, ipsPos, rerun, asc, rfailed, broken, chunks,
                   started>>

Next ==
    \/ Help
    \/ ArgError
    \/ MainSetup
    \/ RangeError
    \/ ChunkBegin
    \/ AfterLoop
    \/ AsCompleted
    \/ FirstReturn
    \/ RetryBegin
    \/ RetryReturn
    \/ \E id \in TaskIds : TaskStart(id)
    \/ \E id \in TaskIds : NextIp(id)
    \/ \E id \in TaskIds : NextEnd(id)
    \/ \E id \in TaskIds : RunCmd(id)
    \/ \E id \in TaskIds : Passwd(id)
    \/ \E id \in TaskIds : Kinit(id)
    \/ \E id \in TaskIds : Collect(id)

Spec == Init /\ [][Next]_vars

\* Runs of a single record over a wide choice of the threads argument, of the
\* base name and of what the external processes do.
WideThreads == {0, 1, 2, 9, 10, 15}
WideNames == BaseNames \cup {<<":">>}

ArgsWide ==
    ArgVectors(Modes \cup {"x"}, WideNames, NumTokens(0, 0), NumTokens(1, 1), NumTokens(0, 1),
               {Str(t) : t \in WideThreads} \cup BadTokens)

InitWide == Start(ArgsWide, ProcResults) /\ NoStatusCall /\ NoBot

SpecWide == InitWide /\ [][Next]_vars

\* hostmk runs of one record and one worker for every start index up to
\* MaxIpIndex, followed until the task holds its address: the generator `ips` at
\* every index.
ArgsIps ==
    {<<"hostmk", <<"u">>, Str(i), Str(i + 1), Str(1), Str(1), ExtraArg>> : i \in 0..MaxIpIndex}

InitIps == Start(ArgsIps, ProcTypical) /\ NoStatusCall /\ NoBot

NextIps ==
    \/ MainSetup
    \/ ChunkBegin
    \/ \E id \in TaskIds : TaskStart(id)
    \/ \E id \in TaskIds : NextIp(id)
    \/ \E id \in TaskIds : NextEnd(id)

SpecIps == InitIps /\ [][NextIps]_vars

\* ------------------------------------------- support_bot.py: get_issue_status

\* Texts are sequences of words and characters; the Russian words of the
\* messages are written in Latin letters.

\* the ticket ids of the tests: a number, a word, the empty string
TicketIds == {Str(999999), <<"a", "b", "c">>, <<>>}

urls_to_try(id) ==
    << <<"SERVICE_API_URL", "/projects/2/issues/">> \o id \o <<".json">>,
       <<"SERVICE_API_URL", "/issues/">> \o id \o <<".json">>,
       <<"SERVICE_API_URL", "/redmine/issues/">> \o id \o <<".json">>,
       <<"SERVICE_API_URL", "/api/v2/issues/">> \o id \o <<".json">> >>

\* f"Тикет #{issue_id} не найден."
NotFoundText(id) == <<"Tiket", "#">> \o id \o <<"ne", "najden", ".">>

\* "Произошла ошибка при получении статуса тикета. Пожалуйста, попробуйте позже."
ErrorText ==
    <<"Proizoshla", "oshibka", "pri", "poluchenii", "statusa", "tiketa", ".",
      "Pozhalujsta", ",", "poprobujte", "pozzhe", ".">>

\* 'не найден'
NeNajden == <<"ne", "najden">>

\* part in text
Contains(text, part) ==
    \E i \in 1..(Len(text) - Len(part) + 1) : SubSeq(text, i, i + Len(part) - 1) = part

\* datetime.strptime(s, '%Y-%m-%dT%H:%M:%SZ'): the fields it reads, ok = FALSE
\* where it raises ValueError
NoDate == [ok |-> FALSE, Y |-> 0, m |-> 0, d |-> 0, H |-> 0, M |-> 0]

IsNumber(s, lo, hi) == Len(s) \in lo..hi /\ \A k \in 1..Len(s) : IsDigit(s[k])

DaysIn(Y, m) ==
    IF m = 2
    THEN IF (Y % 4 = 0 /\ Y % 100 # 0) \/ Y % 400 = 0 THEN 29 ELSE 28
    ELSE IF m \in {4, 6, 9, 11} THEN 30 ELSE 31

strptime(s) ==
    IF s = <<>> \/ s[Len(s)] # "Z" THEN NoDate
    ELSE LET dt == Split(SubSeq(s, 1, Len(s) - 1), "T", Len(s)) IN
         IF Len(dt) # 2 THEN NoDate
         ELSE LET d == Split(dt[1], "-", Len(s))
                  t == Split(dt[2], ":", Len(s))
              IN IF Len(d) # 3 \/ Len(t) # 3 THEN NoDate
                 ELSE IF ~(/\ IsNumber(d[1], 4, 4) /\ IsNumber(d[2], 1, 2) /\ IsNumber(d[3], 1, 2)
                           /\ \A k \in 1..3 : IsNumber(t[k], 1, 2))
                 THEN NoDate
                 ELSE LET Y == NatVal(d[1])
                          m == NatVal(d[2])
                      IN IF /\ Y >= 1 /\ m \in 1..12 /\ NatVal(d[3]) \in 1..DaysIn(Y, m)
                            /\ NatVal(t[1]) \in 0..23 /\ NatVal(t[2]) \in 0..59
                            /\ NatVal(t[3]) \in 0..61
                         THEN [ok |-> TRUE, Y |-> Y, m |-> m, d |-> NatVal(d[3]),
                               H |-> NatVal(t[1]), M |-> NatVal(t[2])]
                         ELSE NoDate

\* strftime('%d.%m.%Y %H:%M') (years of four digits)
Pad2(n) == IF n < 10 THEN <<"0">> \o Str(n) ELSE Str(n)

strftime(t) ==
    Pad2(t.d) \o <<".">> \o Pad2(t.m) \o <<".">> \o Str(t.Y) \o <<" ">> \o Pad2(t.H)
        \o <<":">> \o Pad2(t.M)

\* the f-string of the status text raises ValueError where a date does not parse
Formats(issue_data) ==
    /\ strptime(Get(issue_data, "created_on", <<>>)).ok
    /\ strptime(Get(issue_data, "updated_on", <<>>)).ok

status_text(id, issue_data) ==
    <<"Tiket", "#">> \o id
        \o <<"Status:">> \o Get(Get(issue_data, "status", EmptyDict), "name", <<"Neizvestno">>)
        \o <<"Prioritet:">> \o Get(Get(issue_data, "priority", EmptyDict), "name", <<"Neizvestno">>)
        \o <<"Tema:">> \o Get(issue_data, "subject", <<"Net", "temy">>)
        \o <<"Opisanie:">> \o Get(issue_data, "description", <<"Net", "opisanija">>)
        \o <<"Sozdan:">> \o strftime(strptime(Get(issue_data, "created_on", <<>>)))
        \o <<"Obnovlen:">> \o strftime(strptime(Get(issue_data, "updated_on", <<>>)))
        \o <<"Naznachen:">> \o Get(Get(issue_data, "assigned_to", EmptyDict), "name", <<"Ne", "naznachen">>)

\* What the service does with a request: session.get raises (no connection, no
\* schema in the URL, a 500, 502, 503 or 504 that outlasts the retries of
\* create_session), or answers 404, 403, or 200 with a body that is no JSON, a JSON
\* list, an object without 'issue', an object with an empty 'issue', or a ticket.
Responses ==
    {"raise", "404", "403", "text", "list", "no_issue", "empty_issue", "issue_a", "issue_b",
     "issue_nodate"}

DateA ==
    <<"2", "0", "2", "4", "-", "0", "1", "-", "0", "2", "T", "0", "3", ":", "0", "4", ":", "0", "5", "Z">>
DateB ==
    <<"2", "0", "2", "4", "-", "2", "-", "2", "9", "T", "7", ":", "0", "8", ":", "0", "9", "Z">>

IssueA ==
    [subject |-> <<"A">>, description |-> <<"text">>, status |-> [name |-> <<"New">>],
     priority |-> [name |-> <<"High">>], assigned_to |-> [name |-> <<"Ann">>],
     created_on |-> DateA, updated_on |-> DateB]
IssueB == [subject |-> <<"B">>, created_on |-> DateB, updated_on |-> DateB]
IssueNoDate == [subject |-> <<"C">>, status |-> [name |-> <<"New">>]]

status_code(r) == CASE r = "404" -> 404 [] r = "403" -> 403 [] OTHER -> 200

\* response.json(): ok = FALSE where it raises a JSONDecodeError, dict = FALSE
\* where the value is no object
json(r) ==
    CASE r = "text" -> [ok |-> FALSE, dict |-> FALSE, val |-> EmptyDict]
      [] r = "list" -> [ok |-> TRUE, dict |-> FALSE, val |-> EmptyDict]
      [] r = "no_issue" -> [ok |-> TRUE, dict |-> TRUE, val |-> [error |-> <<"x">>]]
      [] r = "empty_issue" -> [ok |-> TRUE, dict |-> TRUE, val |-> [issue |-> EmptyDict]]
      [] r = "issue_a" -> [ok |-> TRUE, dict |-> TRUE, val |-> [issue |-> IssueA]]
      [] r = "issue_b" -> [ok |-> TRUE, dict |-> TRUE, val |-> [issue |-> IssueB]]
      [] OTHER -> [ok |-> TRUE, dict |-> TRUE, val |-> [issue |-> IssueNoDate]]

Continue == [continue |-> TRUE, val |-> NoReturn]
ReturnText(text) == [continue |-> FALSE, val |-> text]

\* mutant of TryUrl: a 404 ends the loop with the not-found text
TryUrlStopAt404(id, r, caught) ==
    IF r = "raise" THEN ReturnText(ErrorText)
    ELSE IF status_code(r) = 200
    THEN IF ~json(r).ok THEN (IF caught THEN Continue ELSE ReturnText(ErrorText))
         ELSE IF ~json(r).dict THEN ReturnText(ErrorText)
         ELSE LET issue_data == Get(json(r).val, "issue", EmptyDict) IN
              IF DOMAIN issue_data = {} THEN Continue
              ELSE IF Formats(issue_data) THEN ReturnText(status_text(id, issue_data))
              ELSE ReturnText(ErrorText)
    ELSE IF status_code(r) = 404 THEN ReturnText(NotFoundText(id))
    ELSE Continue

\* One pass of the loop over urls_to_try with the response r.  An exception anywhere
\* reaches the outer `except Exception`, which returns the error text: session.get
\* raising, .get on a JSON value that is no object, strptime on a date that does not
\* parse.  `except json.JSONDecodeError` catches what response.json() raises when
\* requests takes its JSONDecodeError from the json module, and not when it takes it
\* from simplejson (caught).
TryUrl(id, r, caught) ==
    IF r = "raise" THEN ReturnText(ErrorText)
    ELSE IF status_code(r) = 200
    THEN IF ~json(r).ok THEN (IF caught THEN Continue ELSE ReturnText(ErrorText))
         ELSE IF ~json(r).dict THEN ReturnText(ErrorText)
         ELSE LET issue_data == Get(json(r).val, "issue", EmptyDict) IN
              IF DOMAIN issue_data = {} THEN Continue
              ELSE IF Formats(issue_data) THEN ReturnText(status_text(id, issue_data))
              ELSE ReturnText(ErrorText)
    ELSE IF status_code(r) = 404 THEN Continue
    ELSE Continue

\* the bulk script at rest
AldIdle == Start({<<>>}, {})

InitStatus ==
    /\ AldIdle
    /\ NoBot
    /\ issue_id \in TicketIds
    /\ site \in [1..Len(urls_to_try(<<>>)) -> Responses]
    /\ requested = <<>>
    /\ returned = NoReturn

\* for url in urls_to_try: session.get(url) and what follows from the response
Request ==
    /\ returned = NoReturn
    /\ Len(requested) < Len(urls_to_try(issue_id))
    /\ LET i == Len(requested) + 1 IN
       /\ requested' = Append(requested, urls_to_try(issue_id)[i])
       /\ \E caught \in BOOLEAN : returned' = TryUrl(issue_id, site[i], caught).val
    /\ UNCHANGED <<issue_id, site>>
    /\ UNCHANGED <<botvars, args, env, critical, argv, pc, start_pos, end_pos, namesPos, ipsPos, rerun, pool,
                   tasks, asc, rfailed, failed_twice, broken, hist>>

\* the return after the loop
NotFound ==
    /\ returned = NoReturn
    /\ Len(requested) = Len(urls_to_try(issue_id))
    /\ returned' = NotFoundText(issue_id)
    /\ UNCHANGED <<issue_id, site, requested>>
    /\ UNCHANGED <<botvars, args, env, critical, argv, pc, start_pos, end_pos, namesPos, ipsPos, rerun, pool,
                   tasks, asc, rfailed, failed_twice, broken, hist>>

NextStatus == Request \/ NotFound

SpecStatus == InitStatus /\ [][NextStatus]_vars

\* ------------------------------------------- support_bot.py: the ticket conversation

\* SUBJECT, DESCRIPTION, COMPANY_NAME, INN, FILES, TICKET_NUMBER, FIRST_NAME,
\* LAST_NAME = range(8); ConversationHandler.END; no entry in the dict
SUBJECT == 0
DESCRIPTION == 1
COMPANY_NAME == 2
INN == 3
FILES == 4
FIRST_NAME == 6
LAST_NAME == 7
END == 0 - 1
NoState == 0 - 2

\* ConversationHandler(..., per_message=True)
per_message == TRUE

MaxKeyboards == 2
MaxSent == 4

\* What the user types: a word, the INN of the list, a well-formed INN that is not
\* in the list, the INN of the list between spaces, and a malformed INN.
Word == <<"A", "n", "n">>
InnListed == Str(1234567890)
InnUnlisted == Str(1234567891)
InnShort == Str(123)
InnPadded == <<" ">> \o InnListed \o <<" ">>
Texts == {Word, InnListed, InnUnlisted, InnShort, InnPadded}

\* inn_list.json as load_inn_list reads it
INN_LIST == {InnListed}

\* str.isdigit(), and str.replace(' ', '').isalpha()
isdigit(s) == s # <<>> /\ \A k \in 1..Len(s) : IsDigit(s[k])
Letters ==
    {"A", "B", "C", "D", "E", "F", "G", "H", "I", "J", "K", "L", "M", "N", "O", "P", "Q", "R",
     "S", "T", "U", "V", "W", "X", "Y", "Z", "a", "b", "c", "d", "e", "f", "g", "h", "i", "j",
     "k", "l", "m", "n", "o", "p", "q", "r", "s", "t", "u", "v", "w", "x", "y", "z"}
isalpha_nospace(s) ==
    LET t == SelectSeq(s, LAMBDA c : c # " ") IN t # <<>> /\ \A k \in 1..Len(t) : t[k] \in Letters

\* the files a user sends: a document with its name, or a photo
Documents == {"a.pdf", "b.doc"}
FileUpdates == [kind : {"document"}, name : Documents] \cup {[kind |-> "photo", name |-> ""]}

\* the keyboards of start, get_last_name and handle_file_upload
MenuKeyboard == {"create_ticket", "check_status", "ask_question"}
FilesKeyboard == {"skip_files", "upload_files"}
FinishKeyboard == {"finish_upload"}
NoKeyboard == {}

\* What a handler of the conversation does: the state it returns, user_data after
\* it, the keyboard of its reply, and whether it called create_ticket.
Done(state, ud, keyboard, call) ==
    [state |-> state, user_data |-> ud, keyboard |-> keyboard, call |-> call]

create_ticket_start(ud) == Done(SUBJECT, Put(ud, "files", <<>>), NoKeyboard, FALSE)

get_subject(ud, text) == Done(DESCRIPTION, Put(ud, "subject", text), NoKeyboard, FALSE)

get_description(ud, text) == Done(COMPANY_NAME, Put(ud, "description", text), NoKeyboard, FALSE)

get_company_name(ud, text) == Done(INN, Put(ud, "company_name", text), NoKeyboard, FALSE)

get_inn(ud, text) ==
    LET inn == Strip(text) IN
    IF ~isdigit(inn) \/ Len(inn) # 10 THEN Done(INN, ud, NoKeyboard, FALSE)
    ELSE IF inn \notin INN_LIST THEN Done(END, ud, NoKeyboard, FALSE)
    ELSE Done(FIRST_NAME, Put(ud, "inn", inn), NoKeyboard, FALSE)

get_first_name(ud, text) ==
    LET first_name == Strip(text) IN
    IF ~isalpha_nospace(first_name) THEN Done(FIRST_NAME, ud, NoKeyboard, FALSE)
    ELSE Done(LAST_NAME, Put(ud, "first_name", first_name), NoKeyboard, FALSE)

get_last_name(ud, text) ==
    LET last_name == Strip(text) IN
    IF ~isalpha_nospace(last_name) THEN Done(LAST_NAME, ud, NoKeyboard, FALSE)
    ELSE Done(FILES, Put(ud, "last_name", last_name), FilesKeyboard, FALSE)

\* create_ticket returns ConversationHandler.END
handle_files_choice(ud, data) ==
    IF data = "skip_files" THEN Done(END, Put(ud, "files", <<>>), NoKeyboard, TRUE)
    ELSE Done(FILES, ud, NoKeyboard, FALSE)

handle_file_upload(ud, file) ==
    LET files == Get(ud, "files", <<>>)
        file_name == IF file.kind = "document" THEN <<file.name>>
                     ELSE <<"photo_">> \o Str(Len(files) + 1) \o <<".jpg">>
    IN Done(FILES, Put(ud, "files", Append(files, [name |-> file_name, data |-> file.name])),
            FinishKeyboard, FALSE)

finish_file_upload(ud) == Done(END, ud, NoKeyboard, TRUE)

\* The handlers of a state in `states`, in their order: the kind of update each
\* takes, the callback data its pattern matches, and its callback.
OfState(state) ==
    CASE state = SUBJECT -> <<[kind |-> {"text"}, pattern |-> {}, callback |-> "get_subject"]>>
      [] state = DESCRIPTION -> <<[kind |-> {"text"}, pattern |-> {}, callback |-> "get_description"]>>
      [] state = COMPANY_NAME -> <<[kind |-> {"text"}, pattern |-> {}, callback |-> "get_company_name"]>>
      [] state = INN -> <<[kind |-> {"text"}, pattern |-> {}, callback |-> "get_inn"]>>
      [] state = FIRST_NAME -> <<[kind |-> {"text"}, pattern |-> {}, callback |-> "get_first_name"]>>
      [] state = LAST_NAME -> <<[kind |-> {"text"}, pattern |-> {}, callback |-> "get_last_name"]>>
      [] state = FILES ->
           <<[kind |-> {"callback"}, pattern |-> FilesKeyboard, callback |-> "handle_files_choice"],
             [kind |-> {"callback"}, pattern |-> FinishKeyboard, callback |-> "finish_file_upload"],
             [kind |-> {"document", "photo"}, pattern |-> {}, callback |-> "handle_file_upload"]>>
      [] OTHER -> <<>>

\* Handler.check_update of a CallbackQueryHandler or MessageHandler
Matches(h, update) ==
    /\ update.kind \in h.kind
    /\ update.kind = "callback" => update.data \in h.pattern

\* the key of the conversation of an update: chat and user are the same all
\* along, and the id of the message of the callback query is part of the key
\* with per_message
KeyOf(flag, update) == IF flag THEN update.message ELSE 0

\* ConversationHandler.check_update of the ticket conversation: the callback it
\* hands the update to, "" when it does not take it.  With per_message an update
\* that is no callback query is not taken; where the key has no state only the
\* entry point is tried, elsewhere only the handlers of the state (there are no
\* fallbacks, and allow_reentry is off).
ConversationTakes(flag, update) ==
    IF flag /\ update.kind # "callback" THEN ""
    ELSE LET state == Get(conversations, KeyOf(flag, update), NoState)
             hs == SelectSeq(OfState(state), LAMBDA h : Matches(h, update))
         IN IF state = NoState
            THEN IF update.kind = "callback" /\ update.data = "create_ticket"
                 THEN "create_ticket_start" ELSE ""
            ELSE IF hs # <<>> THEN hs[1].callback ELSE ""

\* Application.process_update over the handlers in the order of add_handler:
\* the first whose check_update accepts the update handles it.  The status and
\* the question conversation have no state and no entry point for the updates
\* drawn here, so they take none.
Dispatch(update) ==
    IF update.kind = "command" THEN "start"
    ELSE IF ConversationTakes(per_message, update) # "" THEN ConversationTakes(per_message, update)
    ELSE IF update.kind = "text" THEN "process_user_question"
    ELSE ""

\* what the callback does with the update
Handle(callback, ud, update) ==
    CASE callback = "create_ticket_start" -> create_ticket_start(ud)
      [] callback = "get_subject" -> get_subject(ud, update.text)
      [] callback = "get_description" -> get_description(ud, update.text)
      [] callback = "get_company_name" -> get_company_name(ud, update.text)
      [] callback = "get_inn" -> get_inn(ud, update.text)
      [] callback = "get_first_name" -> get_first_name(ud, update.text)
      [] callback = "get_last_name" -> get_last_name(ud, update.text)
      [] callback = "handle_files_choice" -> handle_files_choice(ud, update.data)
      [] callback = "finish_file_upload" -> finish_file_upload(ud)
      [] callback = "handle_file_upload" -> handle_file_upload(ud, update)
      [] callback = "start" -> Done(NoState, ud, MenuKeyboard, FALSE)
      [] OTHER -> Done(NoState, ud, NoKeyboard, FALSE)

ConversationCallbacks ==
    {"create_ticket_start", "get_subject", "get_description", "get_company_name", "get_inn",
     "get_first_name", "get_last_name", "handle_files_choice", "finish_file_upload",
     "handle_file_upload"}

\* The Application processes one update.  A callback of the conversation leaves
\* its state in the dict, END removes the key; process_user_question and start
\* are plain handlers, what they return is dropped.
Process(update) ==
    LET callback == Dispatch(update)
        r == Handle(callback, user_data, update)
        key == KeyOf(per_message, update)
    IN /\ taken' = callback
       /\ user_data' = r.user_data
       /\ keyboards' = IF r.keyboard # NoKeyboard THEN Append(keyboards, r.keyboard) ELSE keyboards
       /\ conversations' =
              IF callback \notin ConversationCallbacks THEN conversations
              ELSE IF r.state = END THEN Pop(conversations, key)
              ELSE Put(conversations, key, r.state)
       /\ called' = IF r.call THEN Append(called, r.user_data) ELSE called
       /\ sent' = IF callback = "create_ticket_start" THEN <<>>
                  ELSE IF update.kind = "text" /\ DOMAIN conversations # {} THEN Append(sent, update.text)
                  ELSE sent
       /\ UNCHANGED <<ticket, question, statusvars, args, env, critical, argv, pc, start_pos, end_pos, namesPos,
                      ipsPos, rerun, pool, tasks, asc, rfailed, failed_twice, broken, hist>>

\* the user sends /start
Command ==
    /\ Len(keyboards) < MaxKeyboards
    /\ Process([kind |-> "command", text |-> "start"])

\* the user presses a button of a keyboard the bot has sent
Press ==
    \E m \in 1..Len(keyboards) : \E data \in keyboards[m] \ {"check_status", "ask_question"} :
        Process([kind |-> "callback", data |-> data, message |-> m])

\* the user sends a text that is no command
Text ==
    /\ Len(sent) < MaxSent
    /\ \E t \in Texts : Process([kind |-> "text", text |-> t, message |-> 0])

\* the user sends a document or a photo
File ==
    /\ Len(keyboards) < MaxKeyboards
    /\ Len(Get(user_data, "files", <<>>)) < 2
    /\ \E f \in FileUpdates : Process([kind |-> f.kind, name |-> f.name, message |-> 0])

InitBot == AldIdle /\ NoStatusCall /\ NoBot

NextBot == Command \/ Press \/ Text \/ File

SpecBot == InitBot /\ [][NextBot]_vars

\* ------------------------------------------------------------ create_ticket
\* One call of create_ticket(update, context), stepped through the calls it
\* makes.  The update is the callback query of handle_files_choice or of
\* finish_file_upload, the only callers; update.message of a callback query is
\* None.  `ticket` holds the position, the outcome of every step so far (steps),
\* whether session.post was called (posted), the id read from its response, the
\* files attached, the replies delivered and what the call returned.

\* user_data at the call: the six fields and the files of the conversation
FileLists ==
    {<<>>} \cup {<<[name |-> <<a>>, data |-> a]>> : a \in Documents}
           \cup {<<[name |-> <<a>>, data |-> a], [name |-> <<b>>, data |-> b]>> : a, b \in Documents}
UserData ==
    {[k \in {"subject", "description", "company_name", "inn", "first_name", "last_name", "files"} |->
         IF k = "files" THEN files ELSE IF k = "inn" THEN InnListed ELSE Word] : files \in FileLists}

\* update.message.reply_text on a callback query: update.message is None
MessageReply == "raises"

Entered ==
    [pc |-> "check_api_availability", steps |-> <<>>, posted |-> FALSE, ticket_id |-> "",
     attached |-> <<>>, replies |-> <<>>, ret |-> NoState]

Step(name, result) == [name |-> name, result |-> result]

\* (check_api_availabilityAny: a variant that lets every answer pass)
\* `if not check_api_availability()`: True only for a 200 of /users/current.json,
\* an exception inside it gives False; the reply of the branch is MessageReply
check_api_availabilityAny(r) == TRUE
check_api_availability(r) == r = "200"
CheckApi ==
    /\ ticket.pc = "check_api_availability"
    /\ \E r \in {"200", "401", "raises"} :
           ticket' = [ticket EXCEPT !.steps = Append(@, Step("check_api_availability", r)),
                                    !.pc = IF check_api_availability(r) THEN "get_projects" ELSE "except"]
    /\ UNCHANGED <<keyboards, conversations, user_data, sent, taken, called, question>>
    /\ UNCHANGED <<statusvars, args, env, critical, argv, pc, start_pos, end_pos, namesPos, ipsPos,
                   rerun, pool, tasks, asc, rfailed, failed_twice, broken, hist>>

\* get_projects(): a list, possibly empty; requests.get in it is outside any try
GetProjects ==
    /\ ticket.pc = "get_projects"
    /\ \E r \in {"some", "empty", "raises"} :
           ticket' = [ticket EXCEPT !.steps = Append(@, Step("get_projects", r)),
                                    !.pc = IF r = "raises" THEN "except" ELSE "get_trackers"]
    /\ UNCHANGED <<keyboards, conversations, user_data, sent, taken, called, question>>
    /\ UNCHANGED <<statusvars, args, env, critical, argv, pc, start_pos, end_pos, namesPos, ipsPos,
                   rerun, pool, tasks, asc, rfailed, failed_twice, broken, hist>>

\* get_trackers(), then `if not projects or not trackers` with MessageReply
GetTrackers ==
    /\ ticket.pc = "get_trackers"
    /\ \E r \in {"some", "empty", "raises"} :
           LET projects == ticket.steps[Len(ticket.steps)].result IN
           ticket' = [ticket EXCEPT !.steps = Append(@, Step("get_trackers", r)),
                                    !.pc = IF r = "some" /\ projects = "some" THEN "get_csrf_token"
                                           ELSE "except"]
    /\ UNCHANGED <<keyboards, conversations, user_data, sent, taken, called, question>>
    /\ UNCHANGED <<statusvars, args, env, critical, argv, pc, start_pos, end_pos, namesPos, ipsPos,
                   rerun, pool, tasks, asc, rfailed, failed_twice, broken, hist>>

\* `csrf_token, session = get_csrf_token()`: (token, session), (None, None), or
\* None when the page of the new issue is not answered with 200 (unpacking None
\* raises TypeError); (None, None) takes the branch with MessageReply
GetCsrf ==
    /\ ticket.pc = "get_csrf_token"
    /\ \E r \in {"token", "none_none", "none"} :
           ticket' = [ticket EXCEPT !.steps = Append(@, Step("get_csrf_token", r)),
                                    !.pc = IF r = "token" THEN "post" ELSE "except"]
    /\ UNCHANGED <<keyboards, conversations, user_data, sent, taken, called, question>>
    /\ UNCHANGED <<statusvars, args, env, critical, argv, pc, start_pos, end_pos, namesPos, ipsPos,
                   rerun, pool, tasks, asc, rfailed, failed_twice, broken, hist>>

\* The responses of the POST: 201 with a Location header, 200 whose text links
\* the issue, 200 without such a link, another status, or an exception.
PostResponses == {"location", "link", "nolink", "422", "raises"}
TicketIdOf(r) == IF r \in {"location", "link"} THEN "7001" ELSE ""

\* form_data is built from user_data, session.post is called, and the ticket id
\* is read from the response; files are processed only with an id and files
Post ==
    /\ ticket.pc = "post"
    /\ \E r \in PostResponses :
           ticket' = [ticket EXCEPT
               !.posted = TRUE,
               !.steps = Append(@, Step("post", r)),
               !.ticket_id = TicketIdOf(r),
               !.pc = IF r = "raises" THEN "except"
                      ELSE IF r = "422" THEN "reply_error"
                      ELSE IF TicketIdOf(r) # "" /\ "files" \in DOMAIN user_data /\ user_data.files # <<>>
                           THEN "process_files"
                      ELSE "reply_created"]
    /\ UNCHANGED <<keyboards, conversations, user_data, sent, taken, called, question>>
    /\ UNCHANGED <<statusvars, args, env, critical, argv, pc, start_pos, end_pos, namesPos, ipsPos,
                   rerun, pool, tasks, asc, rfailed, failed_twice, broken, hist>>

\* process_files, one file of the loop: upload_file gives None unless the upload
\* is answered with 201, attach_file_to_issue gives False unless the PUT is
\* answered with 200, 201 or 204; neither raises
UploadOutcomes == {"attached", "upload_refused", "attach_refused"}
ProcessFile ==
    /\ ticket.pc = "process_files"
    /\ LET processed == Len(SelectSeq(ticket.steps, LAMBDA st : st.name = "process_files"))
           file == user_data.files[processed + 1]
       IN \E r \in UploadOutcomes :
              ticket' = [ticket EXCEPT
                  !.steps = Append(@, Step("process_files", r)),
                  !.attached = IF r = "attached" THEN Append(@, file) ELSE @,
                  !.pc = IF processed + 1 = Len(user_data.files) THEN "reply_created" ELSE @]
    /\ UNCHANGED <<keyboards, conversations, user_data, sent, taken, called, question>>
    /\ UNCHANGED <<statusvars, args, env, critical, argv, pc, start_pos, end_pos, namesPos, ipsPos,
                   rerun, pool, tasks, asc, rfailed, failed_twice, broken, hist>>

\* `await update.callback_query.message.reply_text(...)` inside the try: the
\* message is delivered and the call returns END, or sending raises
Reply ==
    /\ ticket.pc \in {"reply_created", "reply_error"}
    /\ \E r \in {"delivered", "raises"} :
           ticket' = [ticket EXCEPT
               !.replies = IF r = "delivered" THEN Append(@, IF ticket.pc = "reply_created" THEN "created" ELSE "error")
                           ELSE @,
               !.ret = IF r = "delivered" THEN END ELSE @,
               !.pc = IF r = "delivered" THEN "done" ELSE "except"]
    /\ UNCHANGED <<keyboards, conversations, user_data, sent, taken, called, question>>
    /\ UNCHANGED <<statusvars, args, env, critical, argv, pc, start_pos, end_pos, namesPos, ipsPos,
                   rerun, pool, tasks, asc, rfailed, failed_twice, broken, hist>>

\* what leaves create_ticket when the reply of the except branch raises
Propagated == 0 - 3

\* `except Exception`: the error reply, outside any try, then `return END`
Except ==
    /\ ticket.pc = "except"
    /\ \E r \in {"delivered", "raises"} :
           ticket' = [ticket EXCEPT
               !.replies = IF r = "delivered" THEN Append(@, "error") ELSE @,
               !.ret = IF r = "delivered" THEN END ELSE Propagated,
               !.pc = "done"]
    /\ UNCHANGED <<keyboards, conversations, user_data, sent, taken, called, question>>
    /\ UNCHANGED <<statusvars, args, env, critical, argv, pc, start_pos, end_pos, namesPos, ipsPos,
                   rerun, pool, tasks, asc, rfailed, failed_twice, broken, hist>>

InitCreate ==
    /\ AldIdle /\ NoStatusCall
    /\ keyboards = <<>> /\ conversations = EmptyDict /\ sent = <<>> /\ taken = ""
    /\ user_data \in UserData
    /\ called = <<user_data>>
    /\ ticket = Entered
    /\ question = NoQuestion

NextCreate == CheckApi \/ GetProjects \/ GetTrackers \/ GetCsrf \/ Post \/ ProcessFile \/ Reply \/ Except

SpecCreate == InitCreate /\ [][NextCreate]_vars

\* ------------------------------------------------------------ process_user_question
\* One call of process_user_question for a message with text, stepped through
\* reading wiki.html, scoring the sections, search_internet and the replies.
\* Texts are sequences of characters; the Russian words of the source are
\* written in Latin letters.

Uppercase == <<"A", "B", "C", "D", "E", "F", "G", "H", "I", "J", "K", "L", "M", "N", "O", "P", "Q", "R",
               "S", "T", "U", "V", "W", "X", "Y", "Z">>
Lowercase == <<"a", "b", "c", "d", "e", "f", "g", "h", "i", "j", "k", "l", "m", "n", "o", "p", "q", "r",
               "s", "t", "u", "v", "w", "x", "y", "z">>
\* str.lower()
lower(s) == [i \in 1..Len(s) |-> IF \E k \in 1..26 : Uppercase[k] = s[i]
                                 THEN Lowercase[CHOOSE k \in 1..26 : Uppercase[k] = s[i]] ELSE s[i]]

\* str.split(): the words between runs of spaces
RECURSIVE split(_)
split(s) ==
    LET t == LStrip(s) IN
    IF t = <<>> THEN <<>>
    ELSE LET n == IF \E i \in 1..Len(t) : t[i] = " " THEN (CHOOSE i \in 1..Len(t) : t[i] = " " /\ \A j \in 1..(i - 1) : t[j] # " ") - 1
                  ELSE Len(t)
         IN <<SubSeq(t, 1, n)>> \o split(SubSeq(t, n + 1, Len(t)))

\* ' '.join(words)
RECURSIVE join(_)
join(words) == IF words = <<>> THEN <<>> ELSE IF Len(words) = 1 THEN words[1]
               ELSE words[1] \o <<" ">> \o join(Tail(words))

\* the elements of a set in some order (iteration over a Python set)
RECURSIVE list(_)
list(set) == IF set = {} THEN <<>> ELSE LET x == CHOOSE x \in set : TRUE IN <<x>> \o list(set \ {x})

\* any(part in text for part in parts)
AnyIn(parts, text) == \E k \in 1..Len(parts) : Contains(text, parts[k])

W_ustanovka == <<"u", "s", "t", "a", "n", "o", "v", "k", "a">>
W_pochta == <<"p", "o", "c", "h", "t", "a">>
W_klaster == <<"k", "l", "a", "s", "t", "e", "r">>

\* keywords: three of the categories of the table, each with some of its synonyms
keywords ==
    [c \in {W_ustanovka, W_pochta, W_klaster} |->
        IF c = W_ustanovka THEN <<<<"u", "s", "t", "a", "n", "o", "v", "i", "t">>, <<"i", "n", "s", "t", "a", "l", "l">>, <<"w", "o", "r", "d">>>>
        ELSE IF c = W_pochta THEN <<<<"e", "m", "a", "i", "l">>, <<"m", "a", "i", "l">>>>
        ELSE <<<<"c", "l", "u", "s", "t", "e", "r">>, <<"h", "a">>>>]

InstallationWords == <<<<"u", "s", "t", "a", "n", "o", "v", "i", "t">>, <<"u", "s", "t", "a", "n", "o", "v", "k", "a">>, <<"p", "o", "s", "t", "a", "v", "i", "t">>>>
EditorWords == <<<<"r", "e", "d", "a", "k", "t", "o", "r">>, <<"w", "o", "r", "d">>, <<"e", "x", "c", "e", "l">>>>
EditorSuffix == <<" ", "u", "s", "t", "a", "n", "o", "v", "k", "a", " ", "r", "e", "d", "a", "k", "t", "o", "r", " ", "d", "o", "k", "u", "m", "e", "n", "t", "o", "v">>

\* normalized_question before the categories are appended
Normalized(user_question) ==
    LET q == lower(user_question) IN
    IF AnyIn(InstallationWords, q) /\ AnyIn(EditorWords, q) THEN q \o EditorSuffix ELSE q

\* question_keywords: a category is added when a word of the question is one of
\* its synonyms or any synonym occurs in the question; nothing without a word
question_keywords(nq) ==
    {c \in DOMAIN keywords :
        \E k \in 1..Len(split(nq)) : split(nq)[k] \in Range(keywords[c]) \/ AnyIn(keywords[c], nq)}

\* normalized_question.split() once the categories are appended
QuestionWords(nq) == split(nq \o <<" ">> \o join(list(question_keywords(nq))))

\* the headers kept as sections: a header with an empty or technical title is skipped
TechnicalTitles == <<<<"w", "i", "k", "i">>, <<"!", "!", "!">>>>
Sections(headers) ==
    SelectSeq([i \in 1..Len(headers) |->
                  [title |-> lower(Strip(headers[i].title)), content |-> headers[i].content]],
              LAMBDA h : h.title # <<>> /\ ~AnyIn(TechnicalTitles, h.title))

\* sum of the numbers of a sequence, and of f over the elements of a sequence
RECURSIVE SumOf(_)
SumOf(seq) == IF seq = <<>> THEN 0 ELSE Head(seq) + SumOf(Tail(seq))
SumOver(seq, f(_)) == SumOf([i \in 1..Len(seq) |-> f(seq[i])])

\* total_score of a section, counted in halves (a synonym in the content adds 0.5)
total_score(section, nq) ==
    LET words == QuestionWords(nq)
        qk == question_keywords(nq)
        Syn(word) == IF word \in DOMAIN keywords THEN keywords[word] ELSE <<>>
        TitleOf(word) == IF Contains(section.title, word) THEN 3
                         ELSE IF AnyIn(Syn(word), section.title) THEN 2 ELSE 0
        HalvesOf(word) == IF Contains(section.content, word) THEN 2
                          ELSE IF AnyIn(Syn(word), section.content) THEN 1 ELSE 0
        KeyTitle(keyword) == IF Contains(section.title, keyword) THEN 2 ELSE 0
        KeyContent(keyword) == IF Contains(section.content, keyword) THEN 1 ELSE 0
        all == \A keyword \in qk :
                   Contains(lower(section.title) \o <<" ">> \o lower(section.content), keyword)
        title_score == SumOver(words, TitleOf) + SumOver(list(qk), KeyTitle) + (IF all THEN 5 ELSE 0)
        content_halves == SumOver(words, HalvesOf) + 2 * SumOver(list(qk), KeyContent)
    IN 2 * title_score + content_halves

\* the loop over the sections: best_match (its index, 0 for None) and best_score
\* (in halves) after the first n sections; a later section must score strictly more
RECURSIVE Best(_, _, _)
Best(sections, nq, n) ==
    IF n = 0 THEN [best_match |-> 0, best_score |-> 0]
    ELSE LET before == Best(sections, nq, n - 1)
             score == total_score(sections[n], nq)
         IN IF score > before.best_score THEN [best_match |-> n, best_score |-> score] ELSE before

\* `if best_match and best_score >= 3`
AnswersAlways(best) == best.best_match # 0
Answers(best) == best.best_match # 0 /\ best.best_score >= 2 * 3

\* os_keywords: two of the systems, each with one of its keywords
os_keywords == <<[os |-> <<"a", "s", "t", "r", "a">>, keywords |-> <<<<"a", "s", "t", "r", "a">>>>], [os |-> <<"a", "l", "t">>, keywords |-> <<<<"a", "l", "t">>>>]>>
found_os(query) == SelectSeq(os_keywords, LAMBDA o : AnyIn(o.keywords, lower(query)))

\* search_internet(query): None ("") without the two keys; with systems named in
\* the query one request each, their items grouped into the answer; otherwise,
\* or when these gave no item, one ordinary request whose first item is the
\* answer; a request that raises gives None.  answers are the outcomes of the
\* requests in order.
SearchAnswers == {"items", "empty", "raises"}
search_internet(query, configured, answers) ==
    LET n == Len(found_os(query))
        os == SubSeq(answers, 1, n)
    IN IF ~configured THEN ""
       ELSE IF "raises" \in Range(os) THEN ""
       ELSE IF "items" \in Range(os) THEN "web"
       ELSE IF answers[n + 1] = "items" THEN "web" ELSE ""

\* the questions users send and the headers of wiki.html
Questions == {<<" ", "M", "a", "i", "l">>, <<"h", "a">>, <<"z", "z", "z">>, <<"u", "s", "t", "a", "n", "o", "v", "i", "t", " ", "w", "o", "r", "d">>, <<"a", "s", "t", "r", "a", " ", "m", "a", "i", "l">>}
Header(title, content) == [title |-> title, content |-> content]
KnowledgeBases ==
    {<<>>,
     <<Header(<<"P", "o", "c", "h", "t", "a">>, <<"m", "a", "i", "l", " ", "s", "e", "r", "v", "e", "r">>)>>,
     <<Header(<<"w", "i", "k", "i">>, <<"m", "a", "i", "l", " ", "s", "e", "r", "v", "e", "r">>), Header(<<"k", "l", "a", "s", "t", "e", "r">>, <<"h", "a">>)>>,
     <<Header(<<"x">>, <<"h", "a">>)>>,
     <<Header(<<"x">>, <<"y">>)>>,
     <<Header(<<"P", "o", "c", "h", "t", "a">>, <<>>), Header(<<"P", "o", "c", "h", "t", "a">>, <<"y">>), Header(<<"k", "l", "a", "s", "t", "e", "r">>, <<"m", "a", "i", "l", " ", "s", "e", "r", "v", "e", "r">>)>>}

Asked(text, headers) ==
    [pc |-> "open", text |-> text, headers |-> headers, best |-> [best_match |-> 0, best_score |-> 0],
     scored |-> FALSE, searched |-> FALSE, pending |-> "", replies |-> <<>>, ret |-> NoState]

\* wiki.html is missing, cannot be read, cannot be parsed, or is parsed
OpenKb ==
    /\ question.pc = "open"
    /\ \E r \in {"missing", "unreadable", "unparsable", "parsed"} :
           question' = [question EXCEPT !.pc = IF r = "parsed" THEN "score" ELSE "reply",
                                        !.pending = IF r = "parsed" THEN "" ELSE r]
    /\ UNCHANGED <<keyboards, conversations, user_data, sent, taken, called, ticket>>
    /\ UNCHANGED <<statusvars, args, env, critical, argv, pc, start_pos, end_pos, namesPos, ipsPos,
                   rerun, pool, tasks, asc, rfailed, failed_twice, broken, hist>>

\* the sections are scored; with a match of at least 3 the answer is its section
Score ==
    /\ question.pc = "score"
    /\ LET user_question == lower(Strip(question.text))
           sections == Sections(question.headers)
           best == Best(sections, Normalized(user_question), Len(sections))
       IN question' = [question EXCEPT !.best = best, !.scored = TRUE,
                                       !.pc = IF Answers(best) THEN "reply" ELSE "search",
                                       !.pending = IF Answers(best) THEN "section" ELSE ""]
    /\ UNCHANGED <<keyboards, conversations, user_data, sent, taken, called, ticket>>
    /\ UNCHANGED <<statusvars, args, env, critical, argv, pc, start_pos, end_pos, namesPos, ipsPos,
                   rerun, pool, tasks, asc, rfailed, failed_twice, broken, hist>>

\* search_internet(user_question); without a result the reply is 'could not find'
Search ==
    /\ question.pc = "search"
    /\ \E configured \in BOOLEAN : \E answers \in [1..3 -> SearchAnswers] :
           LET internet_result == search_internet(lower(Strip(question.text)), configured, answers)
           IN question' = [question EXCEPT !.searched = TRUE, !.pc = "reply",
                                           !.pending = IF internet_result # "" THEN "web" ELSE "not_found"]
    /\ UNCHANGED <<keyboards, conversations, user_data, sent, taken, called, ticket>>
    /\ UNCHANGED <<statusvars, args, env, critical, argv, pc, start_pos, end_pos, namesPos, ipsPos,
                   rerun, pool, tasks, asc, rfailed, failed_twice, broken, hist>>

\* `await update.message.reply_text(...)` inside the try: delivered, then
\* `return ConversationHandler.END`, or sending raises
Answer ==
    /\ question.pc = "reply"
    /\ \E r \in {"delivered", "raises"} :
           question' = [question EXCEPT
               !.replies = IF r = "delivered" THEN Append(@, question.pending) ELSE @,
               !.ret = IF r = "delivered" THEN END ELSE @,
               !.pc = IF r = "delivered" THEN "done" ELSE "except"]
    /\ UNCHANGED <<keyboards, conversations, user_data, sent, taken, called, ticket>>
    /\ UNCHANGED <<statusvars, args, env, critical, argv, pc, start_pos, end_pos, namesPos, ipsPos,
                   rerun, pool, tasks, asc, rfailed, failed_twice, broken, hist>>

\* `except Exception`: the error reply, outside any try, then `return END`
ExceptAnswer ==
    /\ question.pc = "except"
    /\ \E r \in {"delivered", "raises"} :
           question' = [question EXCEPT
               !.replies = IF r = "delivered" THEN Append(@, "error") ELSE @,
               !.ret = IF r = "delivered" THEN END ELSE Propagated,
               !.pc = "done"]
    /\ UNCHANGED <<keyboards, conversations, user_data, sent, taken, called, ticket>>
    /\ UNCHANGED <<statusvars, args, env, critical, argv, pc, start_pos, end_pos, namesPos, ipsPos,
                   rerun, pool, tasks, asc, rfailed, failed_twice, broken, hist>>

InitQuestion ==
    /\ AldIdle /\ NoStatusCall
    /\ keyboards = <<>> /\ conversations = EmptyDict /\ user_data = EmptyDict
    /\ sent = <<>> /\ taken = "process_user_question" /\ called = <<>> /\ ticket = NoTicket
    /\ \E text \in Questions : \E headers \in KnowledgeBases : question = Asked(text, headers)

NextQuestion == OpenKb \/ Score \/ Search \/ Answer \/ ExceptAnswer

SpecQuestion == InitQuestion /\ [][NextQuestion]_vars

\* ------------------------------------------------------------ helpers of the claims

\* Record Names of the Job Range (start and stop inclusive, as the glossary has it)
RecordNames == {NameOf(argv.name, i) : i \in argv.start..argv.stop}

\* a chunk has just ended, or the run has: cur holds the chunk's finished calls
ChunkOver == pc \in {"loop", "done"} /\ cur # <<>>

CurCalls == {cur[i] : i \in 1..Len(cur)}

\* the names the tasks of call c were given, one per task that got as far
TaskNames(c) == {c.ts[k].name : k \in 1..c.n} \ {<<>>}
TasksNamed(c, x) == Cardinality({k \in 1..c.n : c.ts[k].name = x})
TasksFailedNamed(c, x) ==
    Cardinality({k \in 1..c.n : c.ts[k].name = x /\ c.ts[k].res.kind = "fail"})

\* ------------------------------------------------------------ claims

\* C1: for start <= stop and chunk >= 1 the (start_pos, end_pos) ranges the loop
\* of main iterates are ascending, contiguous and non-overlapping, start at start,
\* each hold between 1 and chunk indices, only the last possibly fewer than chunk,
\* and once the loop is over they cover [start, stop) exactly.
C1_ChunksPartition ==
    (argv.start <= argv.stop /\ argv.chunk >= 1) =>
        /\ \A i \in 1..Len(chunks) :
              /\ chunks[i][1] < chunks[i][2]
              /\ chunks[i][2] - chunks[i][1] <= argv.chunk
              /\ i = 1 => chunks[i][1] = argv.start
              /\ i < Len(chunks) =>
                    /\ chunks[i][2] = chunks[i + 1][1]
                    /\ chunks[i][2] - chunks[i][1] = argv.chunk
        /\ pc = "done" =>
              IF argv.start = argv.stop THEN chunks = <<>>
              ELSE chunks # <<>> /\ chunks[Len(chunks)][2] = argv.stop

\* C1 witness: a finished run of at least two chunks whose last chunk is short
C1_Witness ==
    /\ pc = "done"
    /\ Len(chunks) >= 2
    /\ chunks[Len(chunks)][2] - chunks[Len(chunks)][1] < argv.chunk

\* C2: when the first pass of a chunk returns a non-empty failure list, the chunk
\* has exactly one more call of run_in_threads, with 2 workers and len(failed)
\* tasks, and the names given to its tasks are exactly the names of that list, each
\* to exactly one task; when the list is empty the chunk has no second call.
C2_RetryExactlyFailed ==
    ChunkOver =>
        IF cur[1].ret # <<>>
        THEN /\ Len(cur) = 2
             /\ cur[2].pass = 2
             /\ cur[2].workers = 2
             /\ cur[2].n = Len(cur[1].ret)
             /\ \A x \in Range(cur[1].ret) \cup TaskNames(cur[2]) :
                   TasksNamed(cur[2], x) = Count(cur[1].ret, x)
        ELSE Len(cur) = 1

\* C3: a Record Name whose task is classified as failed in the first pass and
\* whose external operation keeps failing is in failed_twice once its chunk is over
\* (in every mode).
C3_FailedTwiceReported ==
    ChunkOver =>
        \A x \in broken : TasksFailedNamed(cur[1], x) > 0 => x \in Range(failed_twice)

\* C4: at the end of a run every entry of failed_twice is a Record Name of the Job
\* Range whose task was classified as failed in both passes of its chunk, and no
\* name occurs twice.
C4_FailedTwiceEntries ==
    pc = "done" =>
        \A i \in 1..Len(failed_twice) :
            /\ failed_twice[i] \in RecordNames
            /\ failed_twice[i] \in failedBoth
            /\ Count(failed_twice, failed_twice[i]) = 1

\* C5: a Record Name is given to at most one task in first passes and to at most
\* one task in retry passes; a retry task gets a Record Name only if that name was
\* given to a task of the first pass of the same chunk and was classified as failed
\* there.
C5_AtMostTwice ==
    /\ \A e \in BagToSet(started) :
          e[1] \in RecordNames => CopiesIn(e, started) <= 1
    /\ \A x \in RecordNames :
          (pool.pass = 2 /\ x \in Range(pool.handed)) \/ (Len(cur) = 2 /\ x \in TaskNames(cur[2]))
              => TasksFailedNamed(cur[1], x) = 1

\* C5 witness: a Record Name that has been given to a first-pass task and to a
\* retry task, in a run that is over
C5_Witness ==
    /\ pc = "done"
    /\ \E x \in RecordNames : BagIn(<<x, 1>>, started) /\ BagIn(<<x, 2>>, started)

\* C6: chunks are processed one after another: every task that has not finished
\* belongs to the one call of run_in_threads that is in progress, so tasks of two
\* chunks, or of the first pass and the retry pass of a chunk, never run together;
\* a retry pass has tasks only once the first pass of its chunk has returned with
\* all its tasks finished, and a first pass only once the chunk before it is over.
C6_OneCallAtATime ==
    /\ \A id \in TaskIds :
          tasks[id].st # "done" => pool.active /\ id[1] = pool.id /\ pc = "pool"
    /\ \A id \in TaskIds :
          /\ tasks[id].pass = 2 =>
                /\ Len(cur) >= 1
                /\ cur[1].a = start_pos
                /\ \A k \in 1..cur[1].n : cur[1].ts[k].st = "done"
          /\ tasks[id].pass = 1 => cur = <<>> /\ chunks[Len(chunks)] = <<start_pos, end_pos>>

\* C6 witness: a retry task of the second chunk is running, the first chunk having
\* had a retry pass too
C6_Witness ==
    /\ Len(chunks) = 2
    /\ pool.active
    /\ pool.pass = 2
    /\ \E id \in TaskIds : tasks[id].st \in Running
    /\ \E e \in BagToSet(started) : e[2] = 2 /\ e[1] \notin Range(rerun.items)

C8_ReturnsAfterAllTasks ==
    \A c \in CurCalls :
        /\ DOMAIN c.ts = 1..c.n
        /\ \A k \in 1..c.n : c.ts[k].st = "done"
        /\ ~\E id \in TaskIds : id[1] = c.id

\* C8 witness: a call of two tasks has returned, one of its tasks having raised
C8_Witness ==
    \E c \in CurCalls :
        /\ c.n = 2
        /\ c.ts[1].res.kind = "raise"
        /\ c.ts[2].res.kind # "raise"

\* C9: for every base name, run_in_threads submits one task per index of its
\* range, and the list it returns holds, once each, the name of every task whose
\* result indicated failure, and nothing else.
C9_FailureListExact ==
    \A c \in CurCalls :
        /\ c.n = IF c.pass = 1 THEN c.b - c.a ELSE Len(cur[1].ret)
        /\ \A x \in Range(c.ret) \cup TaskNames(c) :
              Count(c.ret, x) = TasksFailedNamed(c, x)

\* C10: a task that raises is logged as an error and adds nothing to the failure
\* list; the results of the other tasks of the call are still collected; the name
\* of a first-pass task that raised is neither retried nor reported in failed_twice.
C10_RaisedTaskDropped ==
    \A c \in CurCalls :
        /\ \A k \in 1..c.n :
              /\ c.ts[k].res.kind = "raise" => c.ts[k].seen = "exc" /\ ~c.ts[k].app
              /\ c.ts[k].res.kind = "none" => c.ts[k].seen = "none" /\ ~c.ts[k].app
              /\ c.ts[k].res.kind \in {"fail", "ok"} => c.ts[k].seen = "info"
              /\ c.ts[k].res.kind = "fail" => c.ts[k].app
        /\ Len(c.ret) = Cardinality({k \in 1..c.n : c.ts[k].app})
        /\ c.pass = 1 =>
              \A k \in 1..c.n :
                  c.ts[k].res.kind = "raise" /\ c.ts[k].name # <<>> =>
                      /\ c.ts[k].name \notin Range(rerun.items)
                      /\ c.ts[k].name \notin Range(failed_twice)
                      /\ ~BagIn(<<c.ts[k].name, 2>>, started)

\* C10 witness: in a first pass one task raised after it got its name and another
\* was classified as failed; the chunk is over and its retry pass has run
C10_Witness ==
    /\ ChunkOver
    /\ Len(cur) = 2
    /\ \E k, j \in 1..cur[1].n :
          /\ cur[1].ts[k].res.kind = "raise"
          /\ cur[1].ts[k].name # <<>>
          /\ cur[1].ts[j].res.kind = "fail"

NotNonNegative(x) == ~IsInt(x) \/ int(x) < 0

\* main got past the validation of its arguments
Validated == pc \notin {"start", "usage", "argerror"}

\* C12: with fewer than 6 arguments, an unrecognized mode, no seventh argument in
\* hostmk, useract or userauth, or a start, stop, chunk or threads argument that is
\* not a non-negative integer (negative, or no integer at all), the program prints
\* the usage text and ends, and it starts no external command and submits no task.
C12_InvalidArgsUsage ==
    (\/ Len(args) < 6
     \/ args[1] \notin Modes
     \/ args[1] \in ExtraModes /\ Len(args) < 7
     \/ \E k \in 3..6 : NotNonNegative(args[k]))
        => /\ pc \in {"start", "usage"}
           /\ tasks = <<>>
           /\ pool.id = 0
           /\ started = EmptyBag

\* C13: a run whose arguments pass the validation processes every chunk of its
\* range and ends normally, with no exception leaving main, whatever its tasks
\* return or raise: it never stops anywhere but at the end of main.
C13_TerminatesNormally ==
    Validated =>
        /\ pc # "crashed"
        /\ pc = "done" \/ ENABLED Next
        /\ pc = "done" => start_pos >= argv.stop

\* C14: in every run that gets past the validation the chunk size is positive: an
\* argument chunk = 0 is rejected there and never reaches the chunk loop.
C14_ChunkPositive ==
    /\ Validated => argv.chunk > 0
    /\ (Len(args) >= 6 /\ args[5] = Str(0)) => pc \in {"start", "usage"}

\* the tasks of the current chunk: those not yet returned, and those of its
\* finished calls
ChunkTasks ==
    {tasks[id] : id \in TaskIds} \cup UNION {{c.ts[k] : k \in 1..c.n} : c \in CurCalls}

\* the index whose Record Name is x
IndexOf(x) == CHOOSE i \in argv.start..argv.stop : NameOf(argv.name, i) = x

\* the four octets of a dotted address, as numbers
Octets(ip) ==
    LET parts == Split(ip, ".", Len(ip)) IN [k \in 1..Len(parts) |-> int(parts[k])]

\* C15: in hostmk, under every interleaving of the workers, the host <base><i> is
\* registered with the address 10.10.(i div 256).(i mod 256): a task that holds a
\* name and an address holds those of one index.
C15_NameIpPaired ==
    Mode = "hostmk" =>
        \A t \in ChunkTasks :
            (t.name # <<>> /\ t.ip # <<>>) =>
                Octets(t.ip) = <<10, 10, IndexOf(t.name) \div 256, IndexOf(t.name) % 256>>

\* the Record Names of the indices a..b-1, in ascending order
NamesOfRange(a, b) == [k \in 1..(b - a) |-> NameOf(argv.name, a + k - 1)]

\* C16: in the first pass of every chunk [a, b), also after a chunk that had a
\* retry pass or tasks that raised, the Record Names given to the tasks are exactly
\* <base>a .. <base>(b-1), each to exactly one task, and they are drawn in
\* ascending order of their index.
C16_FirstPassNames ==
    /\ \A c \in CurCalls :
          c.pass = 1 =>
              /\ c.handed = NamesOfRange(c.a, c.b)
              /\ \A x \in Range(NamesOfRange(c.a, c.b)) : TasksNamed(c, x) = 1
    /\ (pool.active /\ pool.pass = 1) =>
          /\ Len(pool.handed) <= end_pos - start_pos
          /\ pool.handed = SubSeq(NamesOfRange(start_pos, end_pos), 1, Len(pool.handed))

\* C17: the index range is inclusive: for start <= stop a task is run for every
\* index from start to stop, so <base><stop> is processed.
C17_RangeInclusive ==
    (pc = "done" /\ argv.start <= argv.stop) =>
        \A i \in argv.start..argv.stop : BagIn(<<NameOf(argv.name, i), 1>>, started)

\* C18: the address generator yields 10.10.(i div 256).(i mod 256) for index i
\* (10.10.0.0, 10.10.0.1, 10.10.0.2 for the indices 0, 1, 2); the last octet is
\* always in 0..255, the third is in 0..255 for every i < 65536, and distinct
\* indices below 65536 get distinct addresses (the index is recovered from the
\* two octets).  In a run of one task the address just yielded is that of index
\* ipsPos - 1.
C18_IpOctets ==
    \A id \in TaskIds :
        (tasks[id].st = "cmd1" /\ tasks[id].ip # <<>>) =>
            LET i == ipsPos - 1
                o == Octets(tasks[id].ip)
            IN /\ o = <<10, 10, i \div 256, i % 256>>
               /\ o[4] \in 0..255
               /\ i < 256 * 256 => o[3] \in 0..255 /\ 256 * o[3] + o[4] = i
               /\ i \in 0..2 =>
                     tasks[id].ip = <<"1", "0", ".", "1", "0", ".", "0", ".", Digits[i + 1]>>

\* C18 witness: the address of the last index below 65536 has been yielded
C18_Witness ==
    /\ ipsPos = 256 * 256
    /\ \E id \in TaskIds :
          /\ tasks[id].st = "cmd1"
          /\ tasks[id].ip = <<"1", "0", ".", "1", "0", ".", "2", "5", "5", ".", "2", "5", "5">>

C20_SecondResultOnly ==
    Mode = "hostmk" =>
        \A t \in ChunkTasks :
            /\ t.dropfail => t.st \in {"cmd", "done"}
            /\ (t.st = "done" /\ t.dropfail) => t.proc.cmd = "dnsrecord-add"
            /\ (t.st = "done" /\ t.proc.cmd = "host-add") => t.res.kind = "raise"
            /\ (t.st = "done" /\ t.proc.cmd = "dnsrecord-add") =>
                  (t.res.kind = "fail" <=> Strip(t.proc.err) # <<>>)
            /\ (t.st = "done" /\ t.pass = 1 /\ t.dropfail /\ Strip(t.proc.err) = <<>>) =>
                  /\ t.res.kind # "fail"
                  /\ cur # <<>> => t.name \notin Range(cur[1].ret)
                  /\ ~BagIn(<<t.name, 2>>, started)

\* C20 witness: a hostmk run is over in which host-add failed and dnsrecord-add
\* succeeded, and the chunk had no retry pass
C20_Witness ==
    /\ pc = "done"
    /\ Mode = "hostmk"
    /\ Len(cur) = 1
    /\ cur[1].ts[1].dropfail
    /\ cur[1].ts[1].proc.cmd = "dnsrecord-add"
    /\ cur[1].ts[1].res.kind = "ok"

\* C21: in useract a task whose set-password operation (ipa passwd) writes text
\* to its error stream is classified as a failure: its Record Name is in the
\* failure list of the first pass and is retried.
C21_PasswdStderrFails ==
    Mode = "useract" =>
        \A t \in ChunkTasks :
            (t.pass = 1 /\ t.st = "done" /\ t.dropfail) =>
                /\ t.res.kind = "fail"
                /\ cur # <<>> => t.name \in Range(cur[1].ret)
                /\ Len(cur) = 2 => BagIn(<<t.name, 2>>, started)

\* the tasks whose last external operation was run through run_cmd
RunCmdTasks == {t \in ChunkTasks : t.st = "done" /\ t.proc.cmd # ""}

\* C22: for usermk, groupmk and hostmk, whenever the external operation writes
\* nothing to its error stream and at least one line to its output stream (one
\* line, two or more), the task returns the success result '<name>: <last output
\* line>' and does not raise.
C22_OutputGivesSuccess ==
    \A t \in RunCmdTasks :
        (Strip(t.proc.err) = <<>> /\ t.proc.out >= 1) =>
            /\ t.res.kind = "ok"
            /\ t.res.val = t.name \o S_colon_sp \o Strip(OutLine)

\* C23: a run_cmd task whose external operation writes nothing to either stream
\* has no result: it is not logged as a result, it adds nothing to the failure
\* list, its name is not retried and is never in failed_twice.
C23_SilentNoResult ==
    \A t \in RunCmdTasks :
        (t.proc.err = <<>> /\ t.proc.out = 0) =>
            /\ t.res.kind = "none"
            /\ t.seen \in {"no", "none"}
            /\ ~t.app
            /\ t.pass = 1 =>
                  /\ cur # <<>> => t.name \notin Range(cur[1].ret)
                  /\ ~BagIn(<<t.name, 2>>, started)
                  /\ t.name \notin Range(failed_twice)

\* C23 witness: a run of two chunks is over; the only task of its last chunk wrote
\* nothing, the chunk had no retry pass, and failed_twice holds a name of the
\* chunk before
C23_Witness ==
    /\ pc = "done"
    /\ Len(chunks) = 2
    /\ Len(cur) = 1
    /\ \E k \in 1..cur[1].n :
          /\ cur[1].ts[k].proc.cmd # ""
          /\ cur[1].ts[k].proc.err = <<>>
          /\ cur[1].ts[k].proc.out = 0
          /\ cur[1].ts[k].seen = "none"
    /\ failed_twice # <<>>

\* the extra argument of the command line: the DNS domain or the password
ExtraOf(a) == IF a[1] \in ExtraModes THEN a[7] ELSE <<>>

\* C26: the Execution Context does not change during a run: every task, of the
\* first pass and of the retry pass of every chunk, runs the Command Runner variant
\* of the mode given on the command line with the extra argument given there (DNS
\* domain for hostmk, password for useract and userauth), and no task modifies it.
C26_ContextUnchanged ==
    /\ Validated => argv.mode = args[1] /\ argv.name = args[2] /\ argv.extra = ExtraOf(args)
    /\ \A t \in ChunkTasks : t.fn = args[1] /\ t.args.extra = ExtraOf(args)

\* C26 witness: a retry task of the second chunk of a useract run has finished its
\* kinit, called with the password of the command line
C26_Witness ==
    /\ Mode = "useract"
    /\ Len(chunks) = 2
    /\ \E t \in ChunkTasks :
          /\ t.pass = 2
          /\ t.st = "done"
          /\ t.ops = 2
          /\ t.args.extra = ExtraArg

\* the generator a task is executing at the moment
Inside(t) ==
    CASE t.st = "in_name" -> {t.args.gen}
      [] t.st = "in_ip" -> {"ips"}
      [] OTHER -> {}

\* C24: tasks that run at the same time share no mutable state but the failure
\* list, and the failure list is never written by two threads at once: no task
\* is executing a generator that another running task can reach, and the list
\* grows only by the appends of the as_completed loop of the main thread.
C24_NoSharedState ==
    /\ \A i, j \in TaskIds :
          (i # j /\ tasks[i].st \in Running /\ tasks[j].st \in Running) =>
              Inside(tasks[i]) \cap Generators(tasks[j]) = {}
    /\ pc = "pool" => Len(rfailed) = Cardinality({id \in PoolTasks : tasks[id].app})

\* C25: no two tasks work on the same Record Name at the same time; in useract
\* and userauth no two running tasks use the same credential cache file
\* /tmp/<name>.cc.tmp.
C25_NoNameTwiceAtOnce ==
    \A i, j \in TaskIds :
        (i # j /\ tasks[i].st \in Running /\ tasks[j].st \in Running /\ tasks[i].name # <<>>)
            => tasks[i].name # tasks[j].name

\* C30: in every mode, hostmk included, each task of a retry pass runs the mode's
\* external operation(s) again for one of the failed names, called with the kind of
\* arguments the first pass had (in hostmk the DNS zone and an address), and does
\* not end without having run an external operation.
C30_RetryRunsOperation ==
    \A t \in ChunkTasks :
        (t.pass = 2 /\ t.st = "done") =>
            /\ t.ops >= 1
            /\ t.name \in Range(cur[1].ret)
            /\ t.fn = "hostmk" => t.args.ips /\ t.ip # <<>> /\ t.ops = 2

\* the names in the text of the critical message
Listed(text) ==
    IF text = <<>> THEN <<>>
    ELSE LET parts == Split(text, ",", Len(text)) IN [k \in 1..Len(parts) |-> LStrip(parts[k])]

\* C27: the final critical summary is logged if and only if the failed-twice
\* collection holds at least one name; it is logged only after the last chunk and
\* its retry pass are over, and it lists every name of the collection in the
\* order of the collection, which is chunk by chunk.
C27_FinalSummary ==
    /\ critical.logged => pc = "done"
    /\ pc = "done" =>
          /\ critical.logged <=> failed_twice # <<>>
          /\ critical.logged => Listed(critical.names) = failed_twice
    /\ (ChunkOver /\ Len(cur) = 2 /\ cur[2].ret # <<>>) =>
          /\ Len(failed_twice) >= Len(cur[2].ret)
          /\ SubSeq(failed_twice, Len(failed_twice) - Len(cur[2].ret) + 1, Len(failed_twice))
                = cur[2].ret

IssueOf(k) == Get(json(site[k]).val, "issue", EmptyDict)

Yields(k) ==
    /\ site[k] # "raise"
    /\ status_code(site[k]) = 200
    /\ json(site[k]).ok /\ json(site[k]).dict
    /\ DOMAIN IssueOf(k) # {}

\* the response for the k-th URL is an answer without a ticket: a status other than
\* 200, or a 200 whose JSON object has no issue data
Passes(k) ==
    /\ site[k] # "raise"
    /\ \/ status_code(site[k]) # 200
       \/ json(site[k]).ok /\ json(site[k]).dict /\ DOMAIN IssueOf(k) = {}

UrlIndexes == 1..Len(urls_to_try(issue_id))

ConversationStates == {conversations[k] : k \in DOMAIN conversations}

\* no string of exactly 10 digits once stripped
Malformed(text) == ~(isdigit(Strip(text)) /\ Len(Strip(text)) = 10)

\* C31: no ticket is submitted for an INN that is not a string of 10 digits of
\* INN_LIST: create_ticket is only called with such an INN stored; when the fourth
\* text of a conversation (after subject, description and company name) is a
\* malformed INN, the conversation is in state INN and that INN is not stored; when it
\* is a well-formed INN that is not in the list, the conversation has ended and
\* create_ticket was not called.
C31_InnGate ==
    /\ \A i \in 1..Len(called) :
           /\ "inn" \in DOMAIN called[i]
           /\ called[i].inn \in INN_LIST /\ ~Malformed(called[i].inn)
    /\ (Len(sent) = 4 /\ Malformed(sent[4])) =>
           /\ ConversationStates = {INN}
           /\ "inn" \in DOMAIN user_data => user_data.inn # Strip(sent[4])
    /\ (Len(sent) = 4 /\ ~Malformed(sent[4]) /\ Strip(sent[4]) \notin INN_LIST) =>
           /\ ConversationStates = {}
           /\ called = <<>>

\* the order of the states of the ticket conversation
Flow == <<SUBJECT, DESCRIPTION, COMPANY_NAME, INN, FIRST_NAME, LAST_NAME, FILES>>

TicketFields == {"subject", "description", "company_name", "inn", "first_name", "last_name"}

\* C32: the conversation advances along SUBJECT, DESCRIPTION, COMPANY_NAME, INN,
\* FIRST_NAME, LAST_NAME, FILES, END: it is in no other state; create_ticket is
\* only called with subject, description, company_name, inn, first_name and
\* last_name stored; and each of the first three texts after create_ticket_start
\* moves the conversation one state on, so after one, two and three texts it is in
\* DESCRIPTION, COMPANY_NAME and INN.
C32_FlowOrder ==
    /\ ConversationStates \subseteq Range(Flow)
    /\ \A i \in 1..Len(called) : TicketFields \subseteq DOMAIN called[i]
    /\ Len(sent) \in 1..3 => ConversationStates = {Flow[Len(sent) + 1]}

\* the steps of create_ticket before the POST, with the outcome that lets it go on
Gate ==
    <<Step("check_api_availability", "200"), Step("get_projects", "some"),
      Step("get_trackers", "some"), Step("get_csrf_token", "token")>>
GateNames == {Gate[i].name : i \in 1..Len(Gate)}

TicketCreated ==
    \E i \in 1..Len(ticket.steps) :
        ticket.steps[i].name = "post" /\ ticket.steps[i].result \in {"location", "link", "nolink"}

AskedSections == Sections(question.headers)
ScoreOf(n) == total_score(AskedSections[n], Normalized(lower(Strip(question.text))))
\* the first section with the greatest score, 0 without a section
FirstBest ==
    IF AskedSections = <<>> THEN 0
    ELSE CHOOSE n \in 1..Len(AskedSections) :
             /\ \A j \in 1..Len(AskedSections) : ScoreOf(j) <= ScoreOf(n)
             /\ \A j \in 1..(n - 1) : ScoreOf(j) < ScoreOf(n)
\* the knowledge base holds a section that scores at least 3
Relevant == FirstBest # 0 /\ ScoreOf(FirstBest) >= 2 * 3
Scored == question.pc # "idle" /\ question.scored

\* what the first two sentences of C35 say of a call that has scored the sections
KbElseSearch ==
    /\ (Scored /\ Relevant) =>
           /\ question.best.best_match = FirstBest
           /\ question.pending = "section" /\ ~question.searched
    /\ (Scored /\ ~Relevant /\ question.pc # "search") =>
           /\ question.searched
           /\ question.pending \in {"web", "not_found"}
    /\ (Scored /\ "section" \in Range(question.replies)) => Relevant

====
